---- MODULE Spec2Model ----
(***************************************************************************)
(* Model of the reactive-state core: EventEmitter, Atom and Collection.    *)
(* Every public call (Atom.set, Collection.add/remove/upsert/sync/reset/   *)
(* set, subscribe) is one action that runs the whole synchronous cascade   *)
(* of listener invocations it triggers.                                    *)
(***************************************************************************)
EXTENDS Integers, Sequences, FiniteSets, TLC

\* ------------------------------------------------------------------ bounds
NAtoms == 2
NKeys == 2
MaxVal == 2
MaxSubs == 1

Atoms == 1..NAtoms
Keys == 1..NKeys
Values == 0..MaxVal

\* object id of the Collection in the listener registry (atoms are 1..NAtoms)
COLL == 0
Objs == {COLL} \cup Atoms

VARIABLES
  value,   \* Atom._value, per atom
  lst,     \* EventEmitter._listeners['update'], per object, in registration order
  cval,    \* Collection.#value  : ordered map key -> value (the snapshot)
  catoms,  \* Collection.#atoms  : ordered map key -> child atom
  cmeta,   \* Collection.#meta   : ordered map key -> unsubscribe handle
  gone,    \* history: per atom how the Collection last let go of it ("no" while
           \* installed or never held); recorded only in behaviours that start
           \* with gone.on
  obs,     \* the observed call, if any: its name, arguments, the state it
           \* started from and its emits and listener invocations, in order
  ee,      \* a bare EventEmitter: _listeners, ordered map type -> listeners
  bt,      \* a Batcher: calls, timeoutId, the host's timers, the flush history
  dw,      \* Atoms with derived Atoms built over them
  tw,      \* a Collection with nested Collections, and the last one / has call
  sw,      \* Atoms that several Collections and derived Atoms hold
  dt,      \* the same derived Atoms built twice: by derive and by deriveStructured
  ub,      \* useAtom: the Atom a component is bound to through the Batcher bt
  gw,      \* the call stack of one set call while it runs through the listeners
  hw       \* the snapshot objects one Collection has created

vars == <<value, lst, cval, catoms, cmeta, gone, obs, ee, bt, dw, tw, sw, dt, ub, gw, hw>>
\* the Atoms and the Collection of the main specifications
core == <<value, lst, cval, catoms, cmeta, gone>>
\* the objects of the other specifications
ext == <<ee, bt, dw, tw, sw, dt, ub, gw, hw>>

\* a new EventEmitter: this._listeners = {}; nothing removed yet
EE0 == [reg |-> <<>>, was |-> <<>>]
\* a new Batcher whose flush callback only records: calls = [], timeoutId
\* undefined (0), no timer armed in the host, nothing logged
BT0 == [calls |-> <<>>, timeoutId |-> 0, timers |-> {}, nextId |-> 1,
        flush |-> "rec", log |-> <<>>]
\* derived Atoms: none made yet; the source Atoms hold 0, nobody listens
NDerived == 2
Derived == (NAtoms + 1)..(NAtoms + NDerived)
DObjs == Atoms \cup Derived
NoDer == [on |-> FALSE, how |-> "list", src |-> <<>>, sel |-> "sum"]
DW0 == [value |-> [o \in DObjs |-> 0], lst |-> [o \in DObjs |-> <<>>],
        ders |-> [d \in Derived |-> NoDer]]

\* an empty Collection on which neither one nor has was called
NoNode == [coll |-> FALSE, id |-> 0, atoms |-> <<>>]
TW0 == [root |-> <<>>, op |-> "none", key |-> [arr |-> TRUE, v |-> <<>>],
        res |-> NoNode, has |-> FALSE]
\* A new Collection: #value is the object created by the field initializer
\* (collection.ts 368), no child, nothing returned or delivered yet. heap[i]
\* is the content of the i-th snapshot object created, cur the index of the
\* object #value refers to, kid the value of the child Atom under each key,
\* seen the objects handed out, each with the content it had at that time.
MaxObjs == 4
MaxSeen == 3
HW0 == [heap |-> <<<<>>>>, cur |-> 1, kid |-> <<>>, seen |-> <<>>]
\* Node 1 is an Atom holding 0; the other nodes are not constructed; no set
\* call is running (the stack of emits is empty)
NNodes == 4
MaxUser == 2
GNodes == 1..NNodes
GW0 == [kind |-> [n \in GNodes |-> IF n = 1 THEN "atom" ELSE "none"],
        value |-> [n \in GNodes |-> 0],
        ders |-> [n \in GNodes |-> NoDer],
        kids |-> [n \in GNodes |-> <<>>],
        snap |-> [n \in GNodes |-> <<>>],
        lst |-> [n \in GNodes |-> <<>>],
        stack |-> <<>>, tr |-> <<>>]
\* the Atom holds 0 and has no listener; the effect of useAtom has not run
UB0 == [value |-> 0, lst |-> <<>>, mounted |-> FALSE, torn |-> FALSE]
\* both builds start like DW0; tr is the trace of the last call on each
DT0 == [list |-> DW0 @@ [tr |-> <<>>], struct |-> DW0 @@ [tr |-> <<>>]]

\* Atoms 1..NCells made by user code or by from, one derived Atom and two
\* Collections; none of them constructed yet. orig[b] is the Atom that
\* Atom.from read the value of b from (0 when b was made from a plain value).
NCells == 3
NColls == 2
Cells == 1..NCells
SDerived == {NCells + 1}
SColls == (NCells + 2)..(NCells + 1 + NColls)
SObjs == Cells \cup SDerived \cup SColls
SW0 == [alive |-> {}, orig |-> [b \in Cells |-> 0],
        value |-> [o \in Cells \cup SDerived |-> 0],
        lst |-> [o \in SObjs |-> <<>>],
        ders |-> [d \in SDerived |-> NoDer],
        cons |-> {},
        cv |-> [c \in SColls |-> <<>>], ca |-> [c \in SColls |-> <<>>],
        cm |-> [c \in SColls |-> <<>>]]

\* ------------------------------------------------- JS objects as ordered maps
\* An object is a sequence of <<key, value>> pairs in insertion order.
KeysOf(m) == [i \in 1..Len(m) |-> m[i][1]]
KeySet(m) == {m[i][1] : i \in 1..Len(m)}
HasKey(m, k) == k \in KeySet(m)
Lookup(m, k) == m[CHOOSE i \in 1..Len(m) : m[i][1] = k][2]
Put(m, k, v) ==
  IF HasKey(m, k)
  THEN [i \in 1..Len(m) |-> IF m[i][1] = k THEN <<k, v>> ELSE m[i]]
  ELSE Append(m, <<k, v>>)
Del(m, k) == SelectSeq(m, LAMBDA p : p[1] # k)

\* `!x` of JavaScript on the modelled values: 0 stands for the falsy values
Falsy(v) == v = 0

\* ------------------------------------------------------------- equality
\* Values 1..MaxVal stand for distinct object references with the same
\* content, 0 for a falsy primitive.
strictEqual(prevValue, currValue) == prevValue = currValue
deepEqual(prevValue, currValue) ==
  prevValue = currValue \/ (prevValue > 0 /\ currValue > 0)

\* the isEqual option each atom was constructed with
EqPolicy(a) == IF a % 2 = 0 THEN "deep" ELSE "strict"
IsEqual(a, prevValue, currValue) ==
  IF EqPolicy(a) = "deep"
  THEN deepEqual(prevValue, currValue)
  ELSE strictEqual(prevValue, currValue)

\* ------------------------------------------------------------- listeners
NoListener == [kind |-> "none", id |-> 0, key |-> 0, arg |-> 0]
Rec == [kind |-> "rec", id |-> 0, key |-> 0, arg |-> 0]
RemoveL(k) == [kind |-> "remove", id |-> 0, key |-> k, arg |-> 0]
AddL(k, a) == [kind |-> "add", id |-> 0, key |-> k, arg |-> a]
Closure(n, k) == [kind |-> "coll", id |-> n, key |-> k, arg |-> 0]

\* the listeners user code subscribes: a recorder, one that calls
\* collection.remove(key) and one that calls collection.add({key: atom})
UserListeners ==
  {Rec} \cup {RemoveL(k) : k \in Keys} \cup {AddL(k, a) : k \in Keys, a \in Atoms}

\* ---------------------------------------------------------- program state
\* The record a call works on: the program state, the identities of the
\* listener closures created so far that the call can still meet (used), and
\* the emits and listener invocations the call has made, in order (tr).
ClosureIds(ls, meta) ==
  UNION {{ls[o][i].id : i \in {j \in 1..Len(ls[o]) : ls[o][j].kind = "coll"}} : o \in Objs}
    \cup {meta[i][2].l.id : i \in 1..Len(meta)}

St ==
  [value |-> value, lst |-> lst, cval |-> cval, catoms |-> catoms,
   cmeta |-> cmeta, gone |-> gone, used |-> ClosureIds(lst, cmeta), tr |-> <<>>]

\* a function object that is none of those already created
FreshId(s) == CHOOSE n \in 1..(Cardinality(s.used) + 1) : n \notin s.used

Log(s, t, o, l, ev) ==
  [s EXCEPT !.tr = Append(@, [t |-> t, obj |-> o, l |-> l, ev |-> ev])]

\* ------------------------------------------------------------ EventEmitter
On(s, o, listener) == [s EXCEPT !.lst[o] = Append(@, listener)]

Off(s, o, listener) ==
  [s EXCEPT !.lst[o] = SelectSeq(@, LAMBDA fn : fn # listener)]

RECURSIVE EmitLoop(_, _, _, _, _)
RECURSIVE Invoke(_, _, _)
RECURSIVE AddKey(_, _, _)
RECURSIVE RemoveKey(_, _)
RECURSIVE derivedListener(_, _)
RECURSIVE childListener(_, _, _, _)

Emit(s, o, ev) == EmitLoop(Log(s, "emit", o, NoListener, ev), s.lst[o], 1, o, ev)

EmitLoop(s, ls, i, o, ev) ==
  IF i > Len(ls) THEN s
  ELSE EmitLoop(Invoke(Log(s, "call", o, ls[i], ev), ls[i], ev), ls, i + 1, o, ev)

\* the listener Collection.add subscribes on a child
ChildUpdate(s, key, v) ==
  LET s1 == [s EXCEPT !.cval = Put(@, key, v)]
  IN Emit(s1, COLL, s1.cval)

Invoke(s, l, ev) ==
  CASE l.kind = "coll" -> ChildUpdate(s, l.key, ev)
    [] l.kind = "remove" -> RemoveKey(s, l.key)
    [] l.kind = "add" -> AddKey(s, l.key, l.arg)
    [] l.kind = "derive" -> derivedListener(s, l.key)
    [] l.kind = "child" -> childListener(s, l.arg, l.key, ev)
    [] OTHER -> s

\* ------------------------------------------------------------------- Atom
Resolve(arg, old) == IF arg.fn THEN (old + arg.v) % (MaxVal + 1) ELSE arg.v

\* mutants of Atom.set
AtomSetStoresUpdater(s, a, arg) ==
  LET newValue == arg.v
  IN IF IsEqual(a, s.value[a], newValue) THEN s
     ELSE Emit([s EXCEPT !.value[a] = newValue], a, newValue)
AtomSetStrict(s, a, arg) ==
  LET newValue == Resolve(arg, s.value[a])
  IN IF newValue = s.value[a] THEN s
     ELSE Emit([s EXCEPT !.value[a] = newValue], a, newValue)
AtomSetEmitsFirst(s, a, arg) ==
  LET newValue == Resolve(arg, s.value[a])
  IN IF IsEqual(a, s.value[a], newValue) THEN s
     ELSE [Emit(s, a, s.value[a]) EXCEPT !.value[a] = newValue]

AtomSet(s, a, arg) ==
  LET newValue == Resolve(arg, s.value[a])
  IN IF IsEqual(a, s.value[a], newValue) THEN s
     ELSE Emit([s EXCEPT !.value[a] = newValue], a, newValue)

\* ----------------------------------------------------------------- derive
\* the closure derive subscribes on its i-th source for the derived Atom d
Deriver(d, i) == [kind |-> "derive", id |-> 0, key |-> d, arg |-> i]

getAtomValuesAsArray(s, atoms) == [i \in 1..Len(atoms) |-> s.value[atoms[i]]]
\* mutant of getAtomValuesAsObject: every key gets the first Atom's value
getAtomValuesAsObjectFirst(s, atomsByKey) ==
  [i \in 1..Len(atomsByKey) |-> <<atomsByKey[i][1], s.value[atomsByKey[1][2]]>>]

getAtomValuesAsObject(s, atomsByKey) ==
  [i \in 1..Len(atomsByKey) |-> <<atomsByKey[i][1], s.value[atomsByKey[i][2]]>>]

RECURSIVE SumOf(_)
SumOf(vals) == IF vals = <<>> THEN 0 ELSE (vals[1] + SumOf(Tail(vals))) % (MaxVal + 1)
\* the select functions of user code, on an array of values:
\* (a) => a and (...vs) => sum of vs
SelectArray(sel, vals) == IF sel = "first" THEN vals[1] ELSE SumOf(vals)
\* on an object of values: ({1: a}) => a and (o) => sum of the values of o
SelectObject(sel, obj) ==
  IF sel = "pick" THEN Lookup(obj, 1) ELSE SumOf([i \in 1..Len(obj) |-> obj[i][2]])

\* select(...getAtomValuesAsArray(atoms)) / select(getAtomValuesAsObject(..))
Project(s, d) ==
  IF s.ders[d].how = "list"
  THEN SelectArray(s.ders[d].sel, getAtomValuesAsArray(s, s.ders[d].src))
  ELSE SelectObject(s.ders[d].sel, getAtomValuesAsObject(s, s.ders[d].src))

\* mutant of the closure: stores and announces without comparing
derivedListenerAlways(s, d) ==
  LET v == Project(s, d)
  IN Emit([s EXCEPT !.value[d] = v], d, v)

derivedListener(s, d) == AtomSet(s, d, [fn |-> FALSE, v |-> Project(s, d)])

RECURSIVE SubscribeEach(_, _, _, _)
SubscribeEach(s, d, atoms, i) ==
  IF i > Len(atoms) THEN s
  ELSE SubscribeEach(On(s, atoms[i], Deriver(d, i)), d, atoms, i + 1)

\* the derived Atom is constructed on the id d
NewDerived(s, d, how, src, sel) ==
  LET s1 == [s EXCEPT !.ders[d] = [on |-> TRUE, how |-> how, src |-> src, sel |-> sel]]
  IN [s1 EXCEPT !.value[d] = Project(s1, d), !.lst[d] = <<>>]

\* mutant of derive: only the first source is subscribed
deriveFirstOnly(s, d, atoms, sel) ==
  On(NewDerived(s, d, "list", atoms, sel), atoms[1], Deriver(d, 1))

derive(s, d, atoms, sel) ==
  SubscribeEach(NewDerived(s, d, "list", atoms, sel), d, atoms, 1)

\* mutant of deriveStructured: only the first key is subscribed
deriveStructuredFirstOnly(s, d, atomsByKey, sel) ==
  On(NewDerived(s, d, "struct", atomsByKey, sel), atomsByKey[1][2], Deriver(d, 1))

deriveStructured(s, d, atomsByKey, sel) ==
  SubscribeEach(NewDerived(s, d, "struct", atomsByKey, sel), d,
                [i \in 1..Len(atomsByKey) |-> atomsByKey[i][2]], 1)

\* -------------------------------------------------------------- Collection
\* mutant of the unsubscribe handle: the listener stays registered
UnsubscribeKeeps(s, h) == s

Unsubscribe(s, h) == Off(s, h.obj, h.l)

\* bookkeeping only: remember how the atom of a torn-down subscription left
LetGo(s, h, how) ==
  [Unsubscribe(s, h) EXCEPT !.gone.of[h.obj] = IF s.gone.on THEN how ELSE @]

\* mutant of add: the subscription on a replaced child is left in place
AddKeyLeaks(s, key, atom) ==
  LET l == Closure(FreshId(s), key)
      s2 == [s EXCEPT !.catoms = Put(@, key, atom),
                      !.cval = Put(@, key, s.value[atom]),
                      !.gone.of[atom] = "no",
                      !.used = @ \cup {l.id}]
      s3 == On(s2, atom, l)
      s4 == [s3 EXCEPT !.cmeta = Put(@, key, [obj |-> atom, l |-> l])]
  IN Emit(s4, COLL, s4.cval)

AddKey(s, key, atom) ==
  LET s1 == IF HasKey(s.catoms, key) THEN LetGo(s, Lookup(s.cmeta, key), "replaced") ELSE s
      l == Closure(FreshId(s1), key)
      s2 == [s1 EXCEPT !.catoms = Put(@, key, atom),
                       !.cval = Put(@, key, s1.value[atom]),
                       !.gone.of[atom] = "no",
                       !.used = @ \cup {l.id}]
      s3 == On(s2, atom, l)
      s4 == [s3 EXCEPT !.cmeta = Put(@, key, [obj |-> atom, l |-> l])]
  IN Emit(s4, COLL, s4.cval)

\* mutant of add: all keys are installed, then one update is emitted
RECURSIVE InstallAll(_, _)
InstallAll(s, atomsByKey) ==
  IF atomsByKey = <<>> THEN s
  ELSE LET key == atomsByKey[1][1]
           atom == atomsByKey[1][2]
           s1 == IF HasKey(s.catoms, key) THEN LetGo(s, Lookup(s.cmeta, key), "replaced") ELSE s
           l == Closure(FreshId(s1), key)
           s2 == [s1 EXCEPT !.catoms = Put(@, key, atom),
                            !.cval = Put(@, key, s1.value[atom]),
                            !.used = @ \cup {l.id}]
           s3 == On(s2, atom, l)
       IN InstallAll([s3 EXCEPT !.cmeta = Put(@, key, [obj |-> atom, l |-> l])],
                     Tail(atomsByKey))
AddEmitsOnce(s, atomsByKey) ==
  IF atomsByKey = <<>> THEN s
  ELSE LET s1 == InstallAll(s, atomsByKey) IN Emit(s1, COLL, s1.cval)

RECURSIVE Add(_, _)
Add(s, atomsByKey) ==
  IF atomsByKey = <<>> THEN s
  ELSE Add(AddKey(s, atomsByKey[1][1], atomsByKey[1][2]), Tail(atomsByKey))

\* mutant of remove: the child stays subscribed
RemoveKeyLeaks(s, key) ==
  IF ~HasKey(s.catoms, key) THEN s
  ELSE LET s2 == [s EXCEPT !.cval = Del(@, key),
                           !.catoms = Del(@, key),
                           !.cmeta = Del(@, key)]
       IN Emit(s2, COLL, s2.cval)

RemoveKey(s, key) ==
  IF ~HasKey(s.catoms, key) THEN s
  ELSE LET s1 == LetGo(s, Lookup(s.cmeta, key), "removed")
           s2 == [s1 EXCEPT !.cval = Del(@, key),
                            !.catoms = Del(@, key),
                            !.cmeta = Del(@, key)]
       IN Emit(s2, COLL, s2.cval)

RECURSIVE RemoveAll(_, _)
RemoveAll(s, keys) ==
  IF keys = <<>> THEN s ELSE RemoveAll(RemoveKey(s, keys[1]), Tail(keys))

\* remove(key) with a single key, or with an array of keys
Remove(s, arg) == IF arg.arr THEN RemoveAll(s, arg.keys) ELSE RemoveKey(s, arg.keys[1])

Lit(v) == [fn |-> FALSE, v |-> v]

\* mutant of set: a key without a child gets one (as the earlier set did)
SetKeyCreates(s, key, arg) ==
  IF ~HasKey(s.catoms, key) THEN AddKey(s, key, CHOOSE a \in Atoms : TRUE)
  ELSE AtomSet(s, Lookup(s.catoms, key), arg)

SetKey(s, key, arg) ==
  IF ~HasKey(s.catoms, key) THEN s
  ELSE AtomSet(s, Lookup(s.catoms, key), arg)

RECURSIVE Set(_, _)
Set(s, valuesByKey) ==
  IF valuesByKey = <<>> THEN s
  ELSE Set(SetKey(s, valuesByKey[1][1], Lit(valuesByKey[1][2])), Tail(valuesByKey))

\* mutant of upsert: the passed container always replaces the child
UpsertKeyReplaces(s, key, atom) == AddKey(s, key, atom)

UpsertKey(s, key, atom) ==
  IF ~HasKey(s.catoms, key) THEN AddKey(s, key, atom)
  ELSE AtomSet(s, Lookup(s.catoms, key), Lit(s.value[atom]))

RECURSIVE Upsert(_, _)
Upsert(s, atomsByKey) ==
  IF atomsByKey = <<>> THEN s
  ELSE Upsert(UpsertKey(s, atomsByKey[1][1], atomsByKey[1][2]), Tail(atomsByKey))

SyncKey(s, key, atomsByKey) ==
  IF ~HasKey(atomsByKey, key) THEN RemoveKey(s, key)
  ELSE IF ~HasKey(s.cval, key) \/ Falsy(Lookup(s.cval, key))
       THEN AddKey(s, key, Lookup(atomsByKey, key))
       ELSE SetKey(s, key, Lit(s.value[Lookup(atomsByKey, key)]))

RECURSIVE SyncLoop(_, _, _)
SyncLoop(s, keys, atomsByKey) ==
  IF keys = <<>> THEN s
  ELSE SyncLoop(SyncKey(Log(s, "visit", COLL, NoListener, keys[1]), keys[1], atomsByKey),
                Tail(keys), atomsByKey)

Sync(s, atomsByKey) ==
  SyncLoop(s, KeysOf(s.catoms) \o KeysOf(atomsByKey), atomsByKey)

RECURSIVE UnsubscribeAll(_, _)
UnsubscribeAll(s, meta) ==
  IF meta = <<>> THEN s ELSE UnsubscribeAll(LetGo(s, meta[1][2], "reset"), Tail(meta))

\* mutant of reset: the maps are cleared, the children stay subscribed
ResetLeaks(s) == [s EXCEPT !.cval = <<>>, !.catoms = <<>>, !.cmeta = <<>>]

Reset(s) ==
  [UnsubscribeAll(s, s.cmeta) EXCEPT !.cval = <<>>, !.catoms = <<>>, !.cmeta = <<>>]

\* one(key) for a single key: the child, or null (0)
Null == 0
One(s, key) == IF HasKey(s.catoms, key) THEN Lookup(s.catoms, key) ELSE Null

\* ------------------------------------------------------------------ inputs
\* objects with distinct keys, in every insertion order
RECURSIVE MapsOver(_, _)
MapsOver(ks, vs) ==
  {<<>>} \cup
  UNION {{<<<<k, v>>>> \o m : m \in MapsOver(ks \ {k}, vs)} : <<k, v>> \in ks \X vs}

AtomsByKey == MapsOver(Keys, Atoms)
ValuesByKey == MapsOver(Keys, Values)
\* a literal value, or an updater: (prev) => prev and (prev) => prev + 1
SetArgs == {Lit(v) : v \in Values} \cup {[fn |-> TRUE, v |-> d] : d \in 0..1}
RemoveArgs ==
  {[arr |-> FALSE, keys |-> <<k>>] : k \in Keys} \cup
  {[arr |-> TRUE, keys |-> ks] : ks \in {<<>>} \cup {<<k>> : k \in Keys} \cup (Keys \X Keys)}

\* ----------------------------------------------------------------- actions
\* Function objects are compared by identity only, so the closures that are
\* still referenced when a call returns are renumbered in registration order.
RECURSIVE LiveIds(_, _)
LiveIds(ls, o) ==
  IF o > NAtoms THEN <<>>
  ELSE [i \in 1..Len(SelectSeq(ls[o], LAMBDA l : l.kind = "coll")) |->
          SelectSeq(ls[o], LAMBDA l : l.kind = "coll")[i].id] \o LiveIds(ls, o + 1)

Rank(ids, n) ==
  IF \E i \in 1..Len(ids) : ids[i] = n
  THEN CHOOSE i \in 1..Len(ids) : ids[i] = n
  ELSE Len(ids) + n

RenameL(ids, l) == IF l.kind = "coll" THEN [l EXCEPT !.id = Rank(ids, l.id)] ELSE l

\* the program state of a record, without the call's bookkeeping
Prog(s) == [value |-> s.value, lst |-> s.lst, cval |-> s.cval,
            catoms |-> s.catoms, cmeta |-> s.cmeta]
Ghost(s) == [gone |-> s.gone]

NoObs == [op |-> "none", a |-> 0, arg |-> <<>>, pre |-> <<>>, tr |-> <<>>]

\* What a call leaves behind. A behaviour ends with the one call that is
\* observed: its arguments, trace and starting state are kept next to the
\* state it produced. Calls that are not observed keep the program state only.
Fin(s, see, op, a, arg) ==
  IF see
  THEN Prog(s) @@ Ghost(s) @@
       [obs |-> [op |-> op, a |-> a, arg |-> arg, pre |-> Prog(St), tr |-> s.tr]]
  ELSE LET ids == LiveIds(s.lst, COLL)
       IN [value |-> s.value,
           lst |-> [o \in Objs |->
                      [i \in 1..Len(s.lst[o]) |-> RenameL(ids, s.lst[o][i])]],
           cval |-> s.cval,
           catoms |-> s.catoms,
           cmeta |-> [i \in 1..Len(s.cmeta) |->
                        <<s.cmeta[i][1], [s.cmeta[i][2] EXCEPT !.l = RenameL(ids, @)]>>],
           gone |-> s.gone,
           obs |-> NoObs]

\* number of listeners registered by user code (not by the Collection)
NUserSubs ==
  Cardinality(UNION {{<<o, i>> : i \in {j \in 1..Len(lst[o]) : lst[o][j].kind # "coll"}} :
                       o \in Objs})

AtomSetAct ==
  /\ obs.op = "none"
  /\ \E a \in Atoms, arg \in SetArgs : \E r \in {AtomSet(St, a, arg)} : \E see \in BOOLEAN :
       \E n \in {Fin(r, see, "atom.set", a, arg)} :
         /\ value' = n.value /\ lst' = n.lst /\ cval' = n.cval
         /\ catoms' = n.catoms /\ cmeta' = n.cmeta /\ gone' = n.gone /\ obs' = n.obs
         /\ UNCHANGED ext

SubscribeAct ==
  /\ obs.op = "none"
  /\ \E o \in Objs, l \in UserListeners :
       /\ NUserSubs < MaxSubs
       /\ o = COLL => l.kind # "add"
       /\ gone.on => l.kind # "add"
       /\ lst' = On(St, o, l).lst
       /\ UNCHANGED <<value, cval, catoms, cmeta, gone, obs>>
       /\ UNCHANGED ext

AddAct ==
  /\ obs.op = "none"
  /\ \E m \in AtomsByKey : \E r \in {Add(St, m)} : \E see \in BOOLEAN :
       \E n \in {Fin(r, see, "add", 0, m)} :
         /\ value' = n.value /\ lst' = n.lst /\ cval' = n.cval
         /\ catoms' = n.catoms /\ cmeta' = n.cmeta /\ gone' = n.gone /\ obs' = n.obs
         /\ UNCHANGED ext

RemoveAct ==
  /\ obs.op = "none"
  /\ \E rm \in RemoveArgs : \E r \in {Remove(St, rm)} : \E see \in BOOLEAN :
       \E n \in {Fin(r, see, "remove", 0, rm)} :
         /\ value' = n.value /\ lst' = n.lst /\ cval' = n.cval
         /\ catoms' = n.catoms /\ cmeta' = n.cmeta /\ gone' = n.gone /\ obs' = n.obs
         /\ UNCHANGED ext

UpsertAct ==
  /\ obs.op = "none"
  /\ \E m \in AtomsByKey : \E r \in {Upsert(St, m)} : \E see \in BOOLEAN :
       \E n \in {Fin(r, see, "upsert", 0, m)} :
         /\ value' = n.value /\ lst' = n.lst /\ cval' = n.cval
         /\ catoms' = n.catoms /\ cmeta' = n.cmeta /\ gone' = n.gone /\ obs' = n.obs
         /\ UNCHANGED ext

SyncAct ==
  /\ obs.op = "none"
  /\ \E m \in AtomsByKey : \E r \in {Sync(St, m)} : \E see \in BOOLEAN :
       \E n \in {Fin(r, see, "sync", 0, m)} :
         /\ value' = n.value /\ lst' = n.lst /\ cval' = n.cval
         /\ catoms' = n.catoms /\ cmeta' = n.cmeta /\ gone' = n.gone /\ obs' = n.obs
         /\ UNCHANGED ext

SetAct ==
  /\ obs.op = "none"
  /\ \E m \in ValuesByKey : \E r \in {Set(St, m)} : \E see \in BOOLEAN :
       \E n \in {Fin(r, see, "set", 0, m)} :
         /\ value' = n.value /\ lst' = n.lst /\ cval' = n.cval
         /\ catoms' = n.catoms /\ cmeta' = n.cmeta /\ gone' = n.gone /\ obs' = n.obs
         /\ UNCHANGED ext

ResetAct ==
  /\ obs.op = "none"
  /\ \E r \in {Reset(St)} : \E see \in BOOLEAN :
       \E n \in {Fin(r, see, "reset", 0, <<>>)} :
         /\ value' = n.value /\ lst' = n.lst /\ cval' = n.cval
         /\ catoms' = n.catoms /\ cmeta' = n.cmeta /\ gone' = n.gone /\ obs' = n.obs
         /\ UNCHANGED ext

Init ==
  /\ value \in [Atoms -> Values]
  /\ lst = [o \in Objs |-> <<>>]
  /\ cval = <<>>
  /\ catoms = <<>>
  /\ cmeta = <<>>
  /\ gone = [on |-> FALSE, of |-> [a \in Atoms |-> "no"]]
  /\ obs = NoObs
  /\ ee = EE0 /\ bt = BT0 /\ dw = DW0 /\ tw = TW0 /\ sw = SW0 /\ dt = DT0 /\ ub = UB0 /\ gw = GW0 /\ hw = HW0

InitHist ==
  /\ value \in [Atoms -> Values]
  /\ lst = [o \in Objs |-> <<>>]
  /\ cval = <<>>
  /\ catoms = <<>>
  /\ cmeta = <<>>
  /\ gone = [on |-> TRUE, of |-> [a \in Atoms |-> "no"]]
  /\ obs = NoObs
  /\ ee = EE0 /\ bt = BT0 /\ dw = DW0 /\ tw = TW0 /\ sw = SW0 /\ dt = DT0 /\ ub = UB0 /\ gw = GW0 /\ hw = HW0

Next ==
  \/ AtomSetAct
  \/ SubscribeAct
  \/ AddAct
  \/ RemoveAct
  \/ UpsertAct
  \/ SyncAct
  \/ SetAct
  \/ ResetAct

Spec == Init /\ [][Next]_vars

\* the same program, with the history of let-go children recorded
SpecHist == InitHist /\ [][Next]_vars

\* ============================================================ EventEmitter
\* A bare EventEmitter with several event types. A type is a number, 0 being
\* a missing (falsy) one; a missing listener is NoListener.
NTypes == 2
MaxRegs == 3
NoType == 0
Types == 1..NTypes

\* user functions: Fn(i) only observes; OffsL(t, i) calls off(t, Fn(i)), as
\* the unsubscribe handle of on(t, Fn(i)) does; OnsL(t, i) calls on(t, Fn(i))
Fn(i) == [kind |-> "rec", id |-> i, key |-> 0, arg |-> 0]
OffsL(t, i) == [kind |-> "off", id |-> 0, key |-> t, arg |-> i]
OnsL(t, i) == [kind |-> "on", id |-> 0, key |-> t, arg |-> i]
EListeners ==
  {Fn(1), Fn(2)} \cup {OffsL(t, 1) : t \in Types} \cup {OnsL(t, 2) : t \in Types}

ESt == [reg |-> ee.reg, was |-> ee.was, tr |-> <<>>]
Throw(e) == Log(e, "throw", 0, NoListener, 0)
ListenersOf(reg, type) == IF HasKey(reg, type) THEN Lookup(reg, type) ELSE <<>>
Registered(reg, type, listener) ==
  \E i \in 1..Len(ListenersOf(reg, type)) : ListenersOf(reg, type)[i] = listener

\* mutant of on: no argument is tested
onUnchecked(e, type, listener) ==
  [e EXCEPT !.reg = Put(@, type, Append(ListenersOf(@, type), listener))]

on(e, type, listener) ==
  IF Falsy(type) THEN Throw(e)
  ELSE IF listener = NoListener THEN Throw(e)
  ELSE [e EXCEPT !.reg = Put(@, type, Append(ListenersOf(@, type), listener)),
                 !.was = IF @ = <<type, listener>> THEN <<>> ELSE @]

\* mutant of off: only the first registration of the listener is removed
offFirst(e, type, listener) ==
  IF Falsy(type) THEN Throw(e)
  ELSE IF listener = NoListener THEN Throw(e)
  ELSE IF ~Registered(e.reg, type, listener) THEN e
  ELSE LET ls == Lookup(e.reg, type)
           i == CHOOSE j \in 1..Len(ls) : ls[j] = listener /\ \A k \in 1..(j - 1) : ls[k] # listener
           listeners == SubSeq(ls, 1, i - 1) \o SubSeq(ls, i + 1, Len(ls))
       IN [e EXCEPT !.reg = IF Len(listeners) > 0 THEN Put(@, type, listeners) ELSE Del(@, type)]

\* mutant of off: only the last registration of the listener is removed
offLast(e, type, listener) ==
  IF Falsy(type) THEN Throw(e)
  ELSE IF listener = NoListener THEN Throw(e)
  ELSE IF ~Registered(e.reg, type, listener) THEN e
  ELSE LET ls == Lookup(e.reg, type)
           i == CHOOSE j \in 1..Len(ls) :
                  ls[j] = listener /\ \A k \in (j + 1)..Len(ls) : ls[k] # listener
           listeners == SubSeq(ls, 1, i - 1) \o SubSeq(ls, i + 1, Len(ls))
       IN [e EXCEPT !.reg = IF Len(listeners) > 0 THEN Put(@, type, listeners) ELSE Del(@, type),
                    !.was = <<type, listener>>]

\* mutant of off: the entry of a type is kept when its last listener goes
offKeepsEmpty(e, type, listener) ==
  IF Falsy(type) THEN Throw(e)
  ELSE IF listener = NoListener THEN Throw(e)
  ELSE IF ~HasKey(e.reg, type) THEN e
  ELSE [e EXCEPT !.reg = Put(@, type, SelectSeq(Lookup(e.reg, type), LAMBDA fn : fn # listener)),
                 !.was = IF Registered(e.reg, type, listener)
                         THEN <<type, listener>> ELSE @]

off(e, type, listener) ==
  IF Falsy(type) THEN Throw(e)
  ELSE IF listener = NoListener THEN Throw(e)
  ELSE IF ~HasKey(e.reg, type) THEN e
  ELSE LET listeners == SelectSeq(Lookup(e.reg, type), LAMBDA fn : fn # listener)
       IN [e EXCEPT !.reg = IF Len(listeners) > 0 THEN Put(@, type, listeners)
                            ELSE Del(@, type),
                    !.was = IF Registered(e.reg, type, listener)
                            THEN <<type, listener>> ELSE @]

\* what a user function does when it is invoked
call(e, l) ==
  CASE l.kind = "off" -> off(e, l.key, Fn(l.arg))
    [] l.kind = "on" -> on(e, l.key, Fn(l.arg))
    [] OTHER -> e

RECURSIVE emitLoop(_, _, _, _, _)
emitLoop(e, listeners, i, type, event) ==
  IF i > Len(listeners) THEN e
  ELSE emitLoop(call(Log(e, "call", type, listeners[i], event), listeners[i]),
                listeners, i + 1, type, event)

\* mutant of emit: the listeners of every type are invoked
RECURSIVE AllListeners(_)
AllListeners(reg) == IF reg = <<>> THEN <<>> ELSE reg[1][2] \o AllListeners(Tail(reg))
emitAnyType(e, type, event) ==
  IF Falsy(type) THEN Throw(e)
  ELSE emitLoop(e, AllListeners(e.reg), 1, type, event)

emit(e, type, event) ==
  IF Falsy(type) THEN Throw(e)
  ELSE IF ~HasKey(e.reg, type) THEN e
  ELSE emitLoop(e, Lookup(e.reg, type), 1, type, event)

RECURSIVE TotalRegs(_)
TotalRegs(reg) == IF reg = <<>> THEN 0 ELSE Len(reg[1][2]) + TotalRegs(Tail(reg))

EFin(e, see, op, type, arg) ==
  [ee |-> [reg |-> e.reg, was |-> e.was],
   obs |-> IF see THEN [op |-> op, a |-> type, arg |-> arg, pre |-> ee, tr |-> e.tr]
           ELSE NoObs]

OnAct ==
  /\ obs.op = "none"
  /\ TotalRegs(ee.reg) < MaxRegs
  /\ \E type \in {NoType} \cup Types, l \in EListeners \cup {NoListener} :
       \E r \in {on(ESt, type, l)} : \E see \in BOOLEAN :
       \E n \in {EFin(r, see, "on", type, l)} :
         /\ ee' = n.ee /\ obs' = n.obs
         /\ UNCHANGED <<core, bt, dw, tw, sw, dt, ub, gw, hw>>

OffAct ==
  /\ obs.op = "none"
  /\ \E type \in {NoType} \cup Types, l \in EListeners \cup {NoListener} :
       \E r \in {off(ESt, type, l)} : \E see \in BOOLEAN :
       \E n \in {EFin(r, see, "off", type, l)} :
         /\ ee' = n.ee /\ obs' = n.obs
         /\ UNCHANGED <<core, bt, dw, tw, sw, dt, ub, gw, hw>>

EmitAct ==
  /\ obs.op = "none"
  /\ TotalRegs(ee.reg) <= MaxRegs
  /\ \E type \in {NoType} \cup Types, event \in Values :
       \E r \in {emit(ESt, type, event)} : \E see \in BOOLEAN :
       \E n \in {EFin(r, see, "emit", type, event)} :
         /\ ee' = n.ee /\ obs' = n.obs
         /\ UNCHANGED <<core, bt, dw, tw, sw, dt, ub, gw, hw>>

CoreIdle ==
  /\ value = [a \in Atoms |-> 0]
  /\ lst = [o \in Objs |-> <<>>]
  /\ cval = <<>> /\ catoms = <<>> /\ cmeta = <<>>
  /\ gone = [on |-> FALSE, of |-> [a \in Atoms |-> "no"]]

InitEmitter == CoreIdle /\ obs = NoObs /\ ee = EE0 /\ bt = BT0 /\ dw = DW0 /\ tw = TW0 /\ sw = SW0 /\ dt = DT0 /\ ub = UB0 /\ gw = GW0 /\ hw = HW0
NextEmitter == OnAct \/ OffAct \/ EmitAct
SpecEmitter == InitEmitter /\ [][NextEmitter]_vars

\* ================================================================= Batcher
\* createBatcher(flush, timeout). The host's timers are the set bt.timers of
\* armed timer ids; a timer fires at any later time. bt.log is the history
\* of listener calls, aborts, timer firings and flush calls.
MaxLog == 6
NoTimer == 0
ListenerArgs == {<<v>> : v \in Values}
\* flush callbacks of user code: "rec" only records, "listen" calls the
\* Batcher's listener again from inside the callback
FlushKinds == {"rec", "listen"}

BLog(b, t, arg, inside) ==
  [b EXCEPT !.log = Append(@, [t |-> t, arg |-> arg, inside |-> inside,
                               pending |-> b.timeoutId \in b.timers])]

\* setTimeout: a new timer id, armed
SetTimeout(b) ==
  [b EXCEPT !.timeoutId = b.nextId, !.timers = @ \cup {b.nextId}, !.nextId = @ + 1]

\* mutant of listener: a timer is armed on every call
batcherListenerArmsAlways(b, args, inside) ==
  SetTimeout([BLog(b, "listener", args, inside) EXCEPT !.calls = Append(@, args)])

batcherListener(b, args, inside) ==
  LET b1 == [BLog(b, "listener", args, inside) EXCEPT !.calls = Append(@, args)]
  IN IF b1.timeoutId # NoTimer THEN b1 ELSE SetTimeout(b1)

\* the flush callback, invoked with the accumulated calls
flush(b, calls) ==
  LET b1 == BLog(b, "flush", calls, FALSE)
  IN IF b.flush = "listen" THEN batcherListener(b1, <<1>>, TRUE) ELSE b1

\* mutant of the timer callback: the accumulator is not emptied
timeoutKeepsCalls(b, id) ==
  LET b1 == [BLog(b, "fire", <<>>, FALSE) EXCEPT !.timers = @ \ {id}, !.timeoutId = NoTimer]
  IN flush(b1, b1.calls)

\* the callback passed to setTimeout
timeout(b, id) ==
  LET b1 == [BLog(b, "fire", <<>>, FALSE) EXCEPT !.timers = @ \ {id}, !.timeoutId = NoTimer]
      b2 == flush(b1, b1.calls)
  IN [b2 EXCEPT !.calls = <<>>]

\* mutant of abort: the timer is not cleared
abortKeepsTimer(b) == BLog(b, "abort", <<>>, FALSE)

abort(b) ==
  LET b1 == BLog(b, "abort", <<>>, FALSE)
  IN IF b.timeoutId # NoTimer THEN [b1 EXCEPT !.timers = @ \ {b.timeoutId}] ELSE b1

ListenerAct ==
  /\ Len(bt.log) < MaxLog
  /\ \E args \in ListenerArgs : bt' = batcherListener(bt, args, FALSE)
  /\ UNCHANGED <<core, obs, ee, dw, tw, sw, dt, ub, gw, hw>>

TimerAct ==
  /\ Len(bt.log) < MaxLog
  /\ \E id \in bt.timers : bt' = timeout(bt, id)
  /\ UNCHANGED <<core, obs, ee, dw, tw, sw, dt, ub, gw, hw>>

AbortAct ==
  /\ Len(bt.log) < MaxLog
  /\ bt' = abort(bt)
  /\ UNCHANGED <<core, obs, ee, dw, tw, sw, dt, ub, gw, hw>>

InitBatcher ==
  /\ CoreIdle /\ obs = NoObs /\ ee = EE0 /\ dw = DW0 /\ tw = TW0 /\ sw = SW0 /\ dt = DT0 /\ ub = UB0 /\ gw = GW0 /\ hw = HW0
  /\ \E k \in FlushKinds : bt = [BT0 EXCEPT !.flush = k]
NextBatcher == ListenerAct \/ TimerAct \/ AbortAct
SpecBatcher == InitBatcher /\ [][NextBatcher]_vars

\* ================================================================= useAtom
\* One component bound to one Atom by useAtom. The effect subscribes the
\* Batcher's listener to the Atom; its cleanup unsubscribes it and calls
\* abort. User code may also subscribe a listener of its own that unmounts
\* the component, which runs the cleanup.
BatchL == [kind |-> "batch", id |-> 0, key |-> 0, arg |-> 0]
UnmountL == [kind |-> "unmount", id |-> 0, key |-> 0, arg |-> 0]

\* the effect: createBatcher(update); atom.subscribe(listener)
Mount(p) == [p EXCEPT !.u.lst = Append(@, BatchL), !.u.mounted = TRUE]

\* the cleanup: atom.unsubscribe(listener); abort()
Teardown(p) ==
  [u |-> [p.u EXCEPT !.lst = SelectSeq(@, LAMBDA fn : fn # BatchL), !.torn = TRUE],
   b |-> abort(p.b)]

BoundInvoke(p, l, ev) ==
  CASE l.kind = "batch" -> [p EXCEPT !.b = batcherListener(p.b, <<ev>>, FALSE)]
    [] l.kind = "unmount" -> IF p.u.mounted /\ ~p.u.torn THEN Teardown(p) ELSE p
    [] OTHER -> p

\* this._listeners[type].forEach((listener) => listener(event))
RECURSIVE BoundEmitLoop(_, _, _, _)
BoundEmitLoop(p, ls, i, ev) ==
  IF i > Len(ls) THEN p
  ELSE BoundEmitLoop(BoundInvoke(p, ls[i], ev), ls, i + 1, ev)

\* atom.set(v), default isEqual
BoundSet(p, v) ==
  IF strictEqual(p.u.value, v) THEN p
  ELSE LET p1 == [p EXCEPT !.u.value = v]
       IN BoundEmitLoop(p1, p1.u.lst, 1, v)

Bound == [u |-> ub, b |-> bt]

MountAct ==
  /\ ~ub.mounted
  /\ \E r \in {Mount(Bound)} : ub' = r.u /\ bt' = r.b
  /\ UNCHANGED <<core, obs, ee, dw, tw, sw, dt, gw, hw>>

\* atom.subscribe(listener) by user code, before or after the effect ran
UserSubscribeAct ==
  /\ \A i \in 1..Len(ub.lst) : ub.lst[i] # UnmountL
  /\ ub' = [ub EXCEPT !.lst = Append(@, UnmountL)]
  /\ UNCHANGED <<core, obs, ee, bt, dw, tw, sw, dt, gw, hw>>

BoundSetAct ==
  /\ Len(bt.log) < MaxLog
  /\ \E v \in Values : \E r \in {BoundSet(Bound, v)} : ub' = r.u /\ bt' = r.b
  /\ UNCHANGED <<core, obs, ee, dw, tw, sw, dt, gw, hw>>

\* the component unmounts
TeardownAct ==
  /\ ub.mounted /\ ~ub.torn
  /\ \E r \in {Teardown(Bound)} : ub' = r.u /\ bt' = r.b
  /\ UNCHANGED <<core, obs, ee, dw, tw, sw, dt, gw, hw>>

NextBinding == MountAct \/ UserSubscribeAct \/ BoundSetAct \/ TeardownAct \/ TimerAct
SpecBinding == InitEmitter /\ [][NextBinding]_vars

\* ================================================================== derive
\* Source Atoms 1..NAtoms and derived Atoms made by derive / deriveStructured
\* from Atoms that exist; user code sets source Atoms and subscribes
\* recorders to derived Atoms.
DSt == [value |-> dw.value, lst |-> dw.lst, ders |-> dw.ders, tr |-> <<>>]
Made == {d \in Derived : dw.ders[d].on}
SourceLists(avail) ==
  {<<a>> : a \in avail} \cup {p \in avail \X avail : p[1] # p[2]}
SourceMaps(avail) ==
  {<<<<1, p[1]>>, <<2, p[2]>>>> : p \in {q \in avail \X avail : q[1] # q[2]}}
\* one set call, or two sequential set calls on two sources
SetCalls ==
  {<<<<a, v>>>> : a \in Atoms, v \in Values} \cup
  {<<<<p[1], v>>, <<p[2], w>>>> :
     p \in {q \in Atoms \X Atoms : q[1] < q[2]}, v \in Values, w \in Values}

\* the calls of user code, one after the other; each is marked in the trace
\* with the values all Atoms had when it began. Two sequential calls are the
\* observed ones (a single call is the first of two).
RECURSIVE SetEach(_, _, _)
SetEach(s, calls, i) ==
  IF i > Len(calls) THEN s
  ELSE SetEach(AtomSet(Log(s, "set", calls[i][1], NoListener, s.value),
                       calls[i][1], [fn |-> FALSE, v |-> calls[i][2]]),
               calls, i + 1)

DFin(s, see, op, a, arg) ==
  [dw |-> [value |-> s.value, lst |-> s.lst, ders |-> s.ders],
   obs |-> IF see THEN [op |-> op, a |-> a, arg |-> arg, pre |-> dw, tr |-> s.tr]
           ELSE NoObs]

DeriveAct ==
  /\ obs.op = "none"
  /\ \E d \in Derived \ Made, sel \in {"first", "sum"} :
     \E atoms \in SourceLists(Atoms \cup Made) :
       \E r \in {derive(DSt, d, atoms, sel)} : \E see \in BOOLEAN :
       \E n \in {DFin(r, see, "derive", d, atoms)} :
         /\ dw' = n.dw /\ obs' = n.obs
         /\ UNCHANGED <<core, ee, bt, tw, sw, dt, ub, gw, hw>>

DeriveStructuredAct ==
  /\ obs.op = "none"
  /\ \E d \in Derived \ Made, sel \in {"pick", "sum"} :
     \E atomsByKey \in SourceMaps(Atoms \cup Made) :
       \E r \in {deriveStructured(DSt, d, atomsByKey, sel)} : \E see \in BOOLEAN :
       \E n \in {DFin(r, see, "deriveStructured", d, atomsByKey)} :
         /\ dw' = n.dw /\ obs' = n.obs
         /\ UNCHANGED <<core, ee, bt, tw, sw, dt, ub, gw, hw>>

DSubscribeAct ==
  /\ obs.op = "none"
  /\ \E d \in Made :
       /\ Len(SelectSeq(dw.lst[d], LAMBDA l : l.kind = "rec")) < MaxSubs
       /\ dw' = [dw EXCEPT !.lst[d] = Append(@, Rec)]
  /\ UNCHANGED <<core, obs, ee, bt, tw, sw, dt, ub, gw, hw>>

DSetAct ==
  /\ obs.op = "none"
  /\ \E calls \in SetCalls :
       \E r \in {SetEach(DSt, calls, 1)} : \E see \in {Len(calls) = 2} :
       \E n \in {DFin(r, see, "sets", 0, calls)} :
         /\ dw' = n.dw /\ obs' = n.obs
         /\ UNCHANGED <<core, ee, bt, tw, sw, dt, ub, gw, hw>>

InitDerive == CoreIdle /\ obs = NoObs /\ ee = EE0 /\ bt = BT0 /\ dw = DW0 /\ tw = TW0 /\ sw = SW0 /\ dt = DT0 /\ ub = UB0 /\ gw = GW0 /\ hw = HW0
NextDerive == DeriveAct \/ DeriveStructuredAct \/ DSubscribeAct \/ DSetAct
SpecDerive == InitDerive /\ [][NextDerive]_vars

\* ============================================= derive and deriveStructured
\* The same sources, derived Atoms and subscribers are built twice, the
\* derived Atoms by derive in dt.list and by deriveStructured in dt.struct,
\* and every call of user code is made on both.
TwinMade == {d \in Derived : dt.list.ders[d].on}
\* the object {1: atoms[1], 2: atoms[2]}, its keys inserted in either order
Named(atoms, rev) ==
  IF rev /\ Len(atoms) = 2 THEN <<<<2, atoms[2]>>, <<1, atoms[1]>>>>
  ELSE [i \in 1..Len(atoms) |-> <<i, atoms[i]>>]
\* the select over an object that computes what sel computes over an array
NamedSelect(sel) == IF sel = "first" THEN "pick" ELSE "sum"
Fresh(w) == [w EXCEPT !.tr = <<>>]

TwinDeriveAct ==
  /\ \E d \in Derived \ TwinMade, sel \in {"first", "sum"}, rev \in BOOLEAN :
     \E atoms \in SourceLists(Atoms \cup TwinMade) :
       dt' = [list |-> derive(Fresh(dt.list), d, atoms, sel),
              struct |-> deriveStructured(Fresh(dt.struct), d, Named(atoms, rev),
                                          NamedSelect(sel))]
  /\ UNCHANGED <<core, obs, ee, bt, dw, tw, sw, ub, gw, hw>>

TwinSubscribeAct ==
  /\ \E d \in TwinMade :
       /\ Len(SelectSeq(dt.list.lst[d], LAMBDA l : l.kind = "rec")) < MaxSubs
       /\ dt' = [list |-> On(Fresh(dt.list), d, Rec),
                 struct |-> On(Fresh(dt.struct), d, Rec)]
  /\ UNCHANGED <<core, obs, ee, bt, dw, tw, sw, ub, gw, hw>>

TwinSetAct ==
  /\ \E a \in Atoms, v \in Values :
       dt' = [list |-> AtomSet(Fresh(dt.list), a, Lit(v)),
              struct |-> AtomSet(Fresh(dt.struct), a, Lit(v))]
  /\ UNCHANGED <<core, obs, ee, bt, dw, tw, sw, ub, gw, hw>>

NextTwin == TwinDeriveAct \/ TwinSubscribeAct \/ TwinSetAct
SpecTwin == InitDerive /\ [][NextTwin]_vars

\* ============================================================= one and has
\* A Collection whose children are Atoms and Collections, three levels deep
\* at most. A child is a record: an Atom with its id, or a Collection with
\* its #atoms; NoNode stands for null. Strings are sequences of characters:
\* the key k is the string <<k>>, Dot is the character '.'.
Dot == 0
MaxSegs == 3
AtomNode(a) == [coll |-> FALSE, id |-> a, atoms |-> <<>>]
CollNode(atoms) == [coll |-> TRUE, id |-> 0, atoms |-> atoms]
\* #atoms objects with children from ns, keys in increasing order
ChildMaps(ns) ==
  {<<>>} \cup {<<<<k, n>>>> : k \in Keys, n \in ns}
    \cup {<<<<1, p[1]>>, <<2, p[2]>>>> : p \in ns \X ns}
Level0 == {AtomNode(a) : a \in Atoms} \cup {CollNode(<<>>)}
Level1 == {AtomNode(a) : a \in Atoms} \cup {CollNode(m) : m \in ChildMaps(Level0)}
Roots == ChildMaps(Level1)

\* the strings used as path segments: keys, the empty string, a string that
\* is no key, and (in arrays only) a string with a dot in it
PlainSegs == {<<k>> : k \in Keys} \cup {<<>>, <<1, 1>>}
SegLists(n) == UNION {[1..m -> PlainSegs] : m \in 0..n}
\* segs.join('.')
RECURSIVE Join(_)
Join(segs) ==
  IF segs = <<>> THEN <<>>
  ELSE IF Len(segs) = 1 THEN segs[1]
  ELSE segs[1] \o <<Dot>> \o Join(Tail(segs))
\* the arguments of one and has: an array of strings, or a dotted string
\* (v is then the list of that one string)
PathArgs ==
  {[arr |-> TRUE, v |-> segs] : segs \in SegLists(MaxSegs)}
    \cup {[arr |-> TRUE, v |-> <<<<1, Dot, 2>>>>], [arr |-> TRUE, v |-> <<<<1>>, <<1, Dot, 2>>>>]}
    \cup {[arr |-> FALSE, v |-> <<Join(segs)>>] : segs \in SegLists(MaxSegs)}

\* key.split('.')
RECURSIVE Split(_)
Split(str) ==
  IF \A i \in 1..Len(str) : str[i] # Dot THEN <<str>>
  ELSE LET i == CHOOSE j \in 1..Len(str) : str[j] = Dot /\ \A h \in 1..(j - 1) : str[h] # Dot
       IN <<SubSeq(str, 1, i - 1)>> \o Split(SubSeq(str, i + 1, Len(str)))

\* the string 'undefined', which is no key here
Undefined == <<NKeys + 1>>
\* this.#atoms[path]: the child under the property named path, or undefined
Property(atoms, path) ==
  IF \E k \in KeySet(atoms) : path = <<k>>
  THEN Lookup(atoms, CHOOSE k \in KeySet(atoms) : path = <<k>>)
  ELSE NoNode

\* mutant of one: a non-terminal child that is no Collection is returned
RECURSIVE oneStopsAtAtom(_, _)
oneStopsAtAtom(atoms, key) ==
  LET path == IF key = <<>> THEN Undefined ELSE key[1]
      paths == IF key = <<>> THEN <<>> ELSE Tail(key)
      atom == Property(atoms, path)
  IN IF atom = NoNode THEN NoNode
     ELSE IF Len(paths) = 0 THEN atom
     ELSE IF atom.coll THEN oneStopsAtAtom(atom.atoms, paths)
     ELSE atom

\* one, after `Array.isArray(key) ? key : key.split('.')`
RECURSIVE one(_, _)
one(atoms, key) ==
  LET path == IF key = <<>> THEN Undefined ELSE key[1]
      paths == IF key = <<>> THEN <<>> ELSE Tail(key)
      atom == Property(atoms, path)
  IN IF atom = NoNode THEN NoNode
     ELSE IF Len(paths) = 0 THEN atom
     ELSE IF atom.coll THEN one(atom.atoms, paths)
     ELSE NoNode

KeyArray(key) == IF key.arr THEN key.v ELSE Split(key.v[1])

\* Boolean(this.one(key))
has(atoms, key) == one(atoms, KeyArray(key)) # NoNode

\* a behaviour ends with the one call that is looked at
OneAct ==
  /\ tw.op = "none"
  /\ \E key \in PathArgs :
       tw' = [tw EXCEPT !.op = "one", !.key = key, !.res = one(tw.root, KeyArray(key))]
  /\ UNCHANGED <<core, obs, ee, bt, dw, sw, dt, ub, gw, hw>>

HasAct ==
  /\ tw.op = "none"
  /\ \E key \in PathArgs :
       tw' = [tw EXCEPT !.op = "has", !.key = key, !.has = has(tw.root, key)]
  /\ UNCHANGED <<core, obs, ee, bt, dw, sw, dt, ub, gw, hw>>

InitOne ==
  /\ CoreIdle /\ obs = NoObs /\ ee = EE0 /\ bt = BT0 /\ dw = DW0 /\ sw = SW0 /\ dt = DT0 /\ ub = UB0 /\ gw = GW0 /\ hw = HW0
  /\ \E root \in Roots : tw = [TW0 EXCEPT !.root = root]
NextOne == OneAct \/ HasAct
SpecOne == InitOne /\ [][NextOne]_vars

\* ========================================================= shared children
\* Atoms made by `new Atom` / Atom.from, Collections made by the constructor
\* and by Collection.from, one derived Atom. An Atom can be a child of both
\* Collections, under several keys, and a source of the derived Atom.
SSt == [alive |-> sw.alive, orig |-> sw.orig, value |-> sw.value, lst |-> sw.lst,
        ders |-> sw.ders, cons |-> sw.cons, cv |-> sw.cv, ca |-> sw.ca,
        cm |-> sw.cm, tr |-> <<>>, ret |-> 0]

\* the listener add subscribes on the child under key of Collection c
ChildL(c, key) == [kind |-> "child", id |-> 0, key |-> key, arg |-> c]

childListener(s, c, key, v) ==
  LET s1 == [s EXCEPT !.cv[c] = Put(@, key, v)]
  IN Emit(s1, c, s1.cv[c])

\* mutant of add: a Collection that already listens to the child does not
\* subscribe to it again
AddKeyInOnce(s, c, key, atom) ==
  LET s1 == IF HasKey(s.ca[c], key)
            THEN Unsubscribe(s, Lookup(s.cm[c], key)) ELSE s
      s2 == [s1 EXCEPT !.ca[c] = Put(@, key, atom),
                       !.cv[c] = Put(@, key, s1.value[atom])]
      s3 == IF \E i \in 1..Len(s2.lst[atom]) :
                 s2.lst[atom][i].kind = "child" /\ s2.lst[atom][i].arg = c
            THEN s2 ELSE On(s2, atom, ChildL(c, key))
      s4 == [s3 EXCEPT !.cm[c] = Put(@, key, [obj |-> atom, l |-> ChildL(c, key)])]
  IN Emit(s4, c, s4.cv[c])

\* one key of add, on Collection c
AddKeyIn(s, c, key, atom) ==
  LET s1 == IF HasKey(s.ca[c], key)
            THEN Unsubscribe(s, Lookup(s.cm[c], key)) ELSE s
      s2 == [s1 EXCEPT !.ca[c] = Put(@, key, atom),
                       !.cv[c] = Put(@, key, s1.value[atom])]
      s3 == On(s2, atom, ChildL(c, key))
      s4 == [s3 EXCEPT !.cm[c] = Put(@, key, [obj |-> atom, l |-> ChildL(c, key)])]
  IN Emit(s4, c, s4.cv[c])

RECURSIVE AddIn(_, _, _)
AddIn(s, c, atomsByKey) ==
  IF atomsByKey = <<>> THEN s
  ELSE AddIn(AddKeyIn(s, c, atomsByKey[1][1], atomsByKey[1][2]), c, Tail(atomsByKey))

\* new Collection(atomsByKey), constructed on the id c
NewCollection(s, c, atomsByKey) ==
  [AddIn([s EXCEPT !.cons = @ \cup {c}], c, atomsByKey) EXCEPT !.ret = c]

RECURSIVE SetIn(_, _, _)
SetIn(s, c, valuesByKey) ==
  IF valuesByKey = <<>> THEN s
  ELSE LET key == valuesByKey[1][1]
           s1 == IF ~HasKey(s.ca[c], key) THEN s
                 ELSE AtomSet(s, Lookup(s.ca[c], key), Lit(valuesByKey[1][2]))
       IN SetIn(s1, c, Tail(valuesByKey))

\* an Atom (isAtom) or a plain value, as argument of from
AtomArg(a) == [atom |-> TRUE, v |-> a]
PlainArg(v) == [atom |-> FALSE, v |-> v]

\* new Atom(value, options), constructed on the id b
NewAtom(s, b, v) ==
  [s EXCEPT !.alive = @ \cup {b}, !.value[b] = v, !.lst[b] = <<>>, !.ret = b]

\* mutant of Atom.from: the new Atom takes over the source's listeners
AtomFromShares(s, b, x) ==
  IF x.atom
  THEN [NewAtom(s, b, s.value[x.v]) EXCEPT !.lst[b] = s.lst[x.v], !.orig[b] = x.v]
  ELSE NewAtom(s, b, x.v)

\* Atom.from(value, options)
AtomFrom(s, b, x) ==
  IF x.atom THEN [NewAtom(s, b, s.value[x.v]) EXCEPT !.orig[b] = x.v]
  ELSE NewAtom(s, b, x.v)

\* the Atom ids on which Atom.from without options can construct
FreeStrict(s) == {b \in Cells \ s.alive : EqPolicy(b) = "strict"}
\* Object.keys(values).reduce(... [key]: Atom.from(values[key]) ...)
RECURSIVE WrapAll(_, _, _)
WrapAll(s, values, acc) ==
  IF values = <<>> THEN [s |-> s, atomsByKey |-> acc]
  ELSE LET b == CHOOSE x \in FreeStrict(s) : \A y \in FreeStrict(s) : x <= y
           s1 == AtomFrom(s, b, values[1][2])
       IN WrapAll(s1, Tail(values), Put(acc, values[1][1], b))

\* Collection.from(values), constructed on the id c
CollectionFrom(s, c, values) ==
  LET w == WrapAll(s, values, <<>>)
  IN NewCollection(w.s, c, w.atomsByKey)

SFin(s, see, op, arg) ==
  [sw |-> [alive |-> s.alive, orig |-> s.orig, value |-> s.value, lst |-> s.lst,
           ders |-> s.ders, cons |-> s.cons, cv |-> s.cv, ca |-> s.ca, cm |-> s.cm],
   obs |-> IF see THEN [op |-> op, a |-> s.ret, arg |-> arg, pre |-> sw, tr |-> s.tr]
           ELSE NoObs]

\* the arguments of user code
SValuesOrAtoms ==
  {<<<<k, x>>>> : k \in Keys,
                  x \in {PlainArg(v) : v \in Values} \cup {AtomArg(a) : a \in sw.alive}}
SAtomsByKey ==
  {<<>>} \cup {<<<<k, a>>>> : k \in Keys, a \in sw.alive}
    \cup {<<<<1, p[1]>>, <<2, p[2]>>>> : p \in sw.alive \X sw.alive}

\* the id on which user code constructs its next Atom
NextCell == CHOOSE b \in Cells \ sw.alive : \A y \in Cells \ sw.alive : b <= y
\* the value user code constructs its Atoms with
InitVal == 1

\* new Atom(InitVal)
NewAtomAct ==
  /\ obs.op = "none"
  /\ Cells \ sw.alive # {}
  /\ \E r \in {NewAtom(SSt, NextCell, InitVal)} :
     \E n \in {SFin(r, FALSE, "new Atom", <<>>)} :
       /\ sw' = n.sw /\ obs' = n.obs
       /\ UNCHANGED <<core, ee, bt, dw, tw, dt, ub, gw, hw>>

\* Atom.from(x), x a plain value or an Atom
AtomFromAct ==
  /\ obs.op = "none"
  /\ Cells \ sw.alive # {}
  /\ \E x \in {PlainArg(v) : v \in Values} \cup {AtomArg(a) : a \in sw.alive} :
       \E r \in {AtomFrom(SSt, NextCell, x)} : \E see \in BOOLEAN :
       \E n \in {SFin(r, see, "Atom.from", x)} :
         /\ sw' = n.sw /\ obs' = n.obs
         /\ UNCHANGED <<core, ee, bt, dw, tw, dt, ub, gw, hw>>

\* a.subscribe(listener)
SSubscribeAct ==
  /\ obs.op = "none"
  /\ \E a \in sw.alive :
       /\ Len(sw.lst[a]) < MaxSubs
       /\ sw' = [sw EXCEPT !.lst[a] = Append(@, Rec)]
  /\ UNCHANGED <<core, obs, ee, bt, dw, tw, dt, ub, gw, hw>>

\* the id on which user code constructs its next Collection
NextColl == CHOOSE c \in SColls \ sw.cons : \A y \in SColls \ sw.cons : c <= y

NewCollectionAct ==
  /\ obs.op = "none"
  /\ SColls \ sw.cons # {}
  /\ \E atomsByKey \in SAtomsByKey :
       \E r \in {NewCollection(SSt, NextColl, atomsByKey)} :
       \E n \in {SFin(r, FALSE, "new", atomsByKey)} :
         /\ sw' = n.sw /\ obs' = n.obs
         /\ UNCHANGED <<core, ee, bt, dw, tw, dt, ub, gw, hw>>

CollectionFromAct ==
  /\ obs.op = "none"
  /\ SColls \ sw.cons # {}
  /\ \E values \in SValuesOrAtoms :
       /\ Cardinality(FreeStrict(sw)) >= Len(values)
       /\ \E r \in {CollectionFrom(SSt, NextColl, values)} : \E see \in BOOLEAN :
          \E n \in {SFin(r, see, "Collection.from", values)} :
            /\ sw' = n.sw /\ obs' = n.obs
            /\ UNCHANGED <<core, ee, bt, dw, tw, dt, ub, gw, hw>>

SAddAct ==
  /\ obs.op = "none"
  /\ \E c \in sw.cons : \E k \in Keys, a \in sw.alive :
       /\ ~HasKey(sw.ca[c], k)
       /\ \E r \in {AddIn(SSt, c, <<<<k, a>>>>)} :
          \E n \in {SFin(r, FALSE, "add", <<>>)} :
            /\ sw' = n.sw /\ obs' = n.obs
            /\ UNCHANGED <<core, ee, bt, dw, tw, dt, ub, gw, hw>>

SDeriveAct ==
  /\ obs.op = "none"
  /\ \E d \in {x \in SDerived : ~sw.ders[x].on} :
     \E atoms \in {<<a>> : a \in sw.alive} :
       \E r \in {derive(SSt, d, atoms, "sum")} :
       \E n \in {SFin(r, FALSE, "derive", <<>>)} :
         /\ sw' = n.sw /\ obs' = n.obs
         /\ UNCHANGED <<core, ee, bt, dw, tw, dt, ub, gw, hw>>

\* a.set(v), called directly; the sets are the observed calls that end a run
SAtomSetAct ==
  /\ obs.op = "none"
  /\ \E a \in sw.alive, v \in Values :
       \E r \in {AtomSet(SSt, a, Lit(v))} :
       \E n \in {SFin([r EXCEPT !.ret = a], TRUE, "Atom.set", v)} :
         /\ sw' = n.sw /\ obs' = n.obs
         /\ UNCHANGED <<core, ee, bt, dw, tw, dt, ub, gw, hw>>

\* c.set({key: v}), the set made through a holder
SSetAct ==
  /\ obs.op = "none"
  /\ \E c \in sw.cons : \E k \in Keys, v \in Values :
       \E r \in {SetIn(SSt, c, <<<<k, v>>>>)} :
       \E n \in {SFin([r EXCEPT !.ret = c], TRUE, "set", <<<<k, v>>>>)} :
         /\ sw' = n.sw /\ obs' = n.obs
         /\ UNCHANGED <<core, ee, bt, dw, tw, dt, ub, gw, hw>>

InitShared == CoreIdle /\ obs = NoObs /\ ee = EE0 /\ bt = BT0 /\ dw = DW0 /\ tw = TW0 /\ sw = SW0 /\ dt = DT0 /\ ub = UB0 /\ gw = GW0 /\ hw = HW0
NextShared ==
  \/ NewAtomAct \/ NewCollectionAct \/ CollectionFromAct \/ SAddAct
  \/ SDeriveAct \/ SAtomSetAct \/ SSetAct
SpecShared == InitShared /\ [][NextShared]_vars

\* Atoms, their copies and their subscribers only
NextClone == AtomFromAct \/ SSubscribeAct \/ SAtomSetAct
SpecClone == InitShared /\ [][NextClone]_vars

\* ============================================================ propagation
\* A set call step by step. gw.stack is the call stack of the emits that are
\* running: a frame is one EventEmitter.emit, with the listener array its
\* forEach walks (read when the emit began), the index of the next listener
\* and the event. A step invokes the next listener of the innermost emit, or
\* returns from it. gw.tr is what the running (or last) set call did.
RaiseL(w) == [kind |-> "raise", id |-> 0, key |-> 0, arg |-> w]
Built == {n \in GNodes : gw.kind[n] # "none"}
Idle == gw.stack = <<>>
\* user code constructs its objects before it sets an Atom
Building == Idle /\ gw.tr = <<>>

\* emit: forEach over this._listeners[type] begins
GEmit(g, o, ev) ==
  [g EXCEPT !.tr = Append(@, [t |-> "emit", obj |-> o, l |-> NoListener, ev |-> <<ev>>]),
            !.stack = Append(@, [obj |-> o, ls |-> g.lst[o], i |-> 1, ev |-> <<ev>>])]

\* Atom.set up to the call of emit
GAtomSet(g, a, v) ==
  IF IsEqual(a, g.value[a], v) THEN g
  ELSE GEmit([g EXCEPT !.value[a] = v], a, v)

\* the listener add subscribed on a child under key of Collection c
GChild(g, c, key, v) ==
  LET g1 == [g EXCEPT !.snap[c] = Put(@, key, v)]
  IN GEmit(g1, c, g1.snap[c])

\* listener(event), for the listeners of this specification: a recorder of
\* user code, the closure of derive, the listener of add, and a listener of
\* user code that sets the Atom it listens to to l.arg when it is given less
GInvoke(g, l, o, ev) ==
  CASE l.kind = "derive" -> GAtomSet(g, l.key, Project(g, l.key))
    [] l.kind = "child" -> GChild(g, l.arg, l.key, ev)
    [] l.kind = "raise" -> IF ev < l.arg THEN GAtomSet(g, o, l.arg) ELSE g
    [] OTHER -> g

\* one step of the innermost emit
GStep(g) ==
  LET top == Len(g.stack)
      f == g.stack[top]
  IN IF f.i > Len(f.ls) THEN [g EXCEPT !.stack = SubSeq(@, 1, top - 1)]
     ELSE GInvoke([g EXCEPT !.stack[top].i = @ + 1,
                            !.tr = Append(@, [t |-> "call", obj |-> f.obj,
                                              l |-> f.ls[f.i], ev |-> f.ev])],
                  f.ls[f.i], f.obj, f.ev[1])

\* the node user code constructs next
NextNode == CHOOSE n \in GNodes \ Built : \A m \in GNodes \ Built : n <= m

RECURSIVE GSubscribeEach(_, _, _, _)
GSubscribeEach(g, d, atoms, i) ==
  IF i > Len(atoms) THEN g
  ELSE GSubscribeEach([g EXCEPT !.lst[atoms[i]] = Append(@, Deriver(d, i))], d, atoms, i + 1)

\* mutant of derive: the derived Atom is also subscribed to itself
GDeriveSelf(g, d, atoms, sel) ==
  LET g1 == [g EXCEPT !.kind[d] = "derived",
                      !.ders[d] = [on |-> TRUE, how |-> "list", src |-> atoms, sel |-> sel]]
      g2 == [g1 EXCEPT !.value[d] = Project(g1, d),
                       !.ders[d].src = Append(@, d)]
  IN GSubscribeEach(g2, d, Append(atoms, d), 1)

\* derive(atoms, select), the derived Atom constructed on the node d
GDerive(g, d, atoms, sel) ==
  LET g1 == [g EXCEPT !.kind[d] = "derived",
                      !.ders[d] = [on |-> TRUE, how |-> "list", src |-> atoms, sel |-> sel]]
      g2 == [g1 EXCEPT !.value[d] = Project(g1, d)]
  IN GSubscribeEach(g2, d, atoms, 1)

\* what a node gives as its value: an Atom its value, a Collection its snapshot
GValue(g, n) == IF g.kind[n] = "coll" THEN g.snap[n] ELSE g.value[n]

\* new Collection(atomsByKey) on the node c: add of every key; the updates
\* add emits meet no listener yet
RECURSIVE GAdd(_, _, _)
GAdd(g, c, atomsByKey) ==
  IF atomsByKey = <<>> THEN g
  ELSE LET key == atomsByKey[1][1]
           atom == atomsByKey[1][2]
       IN GAdd([g EXCEPT !.kids[c] = Put(@, key, atom),
                         !.snap[c] = Put(@, key, GValue(g, atom)),
                         !.lst[atom] = Append(@, ChildL(c, key))],
               c, Tail(atomsByKey))

GCollection(g, c, atomsByKey) == GAdd([g EXCEPT !.kind[c] = "coll"], c, atomsByKey)

GSources == {n \in Built : gw.kind[n] \in {"atom", "derived"}}

\* derive(atoms, (...values) => sum of the values)
GDeriveAct ==
  /\ Building /\ Built # GNodes
  /\ \E atoms \in SourceLists(GSources) :
       gw' = GDerive(gw, NextNode, atoms, "sum")
  /\ UNCHANGED <<core, obs, ee, bt, dw, tw, sw, dt, ub, hw>>

GCollectionAct ==
  /\ Building /\ Built # GNodes
  /\ \E child \in Built :
       gw' = GCollection(gw, NextNode, <<<<1, child>>>>)
  /\ UNCHANGED <<core, obs, ee, bt, dw, tw, sw, dt, ub, hw>>

\* subscribe(listener) with a recorder, on a node that has none
GSubscribeAct ==
  /\ Building
  /\ \E n \in Built :
       /\ Len(SelectSeq(gw.lst[n], LAMBDA l : l.kind \in {"rec", "raise"})) < MaxUser
       /\ \A i \in 1..Len(gw.lst[n]) : gw.lst[n][i] # Rec
       /\ gw' = [gw EXCEPT !.lst[n] = Append(@, Rec)]
  /\ UNCHANGED <<core, obs, ee, bt, dw, tw, sw, dt, ub, hw>>

\* subscribe(listener) with a listener that sets the Atom
GSubscribeSetterAct ==
  /\ Building
  /\ \E n \in {m \in Built : gw.kind[m] = "atom"}, w \in Values \ {0} :
       /\ Len(SelectSeq(gw.lst[n], LAMBDA l : l.kind \in {"rec", "raise"})) < MaxUser
       /\ gw' = [gw EXCEPT !.lst[n] = Append(@, RaiseL(w))]
  /\ UNCHANGED <<core, obs, ee, bt, dw, tw, sw, dt, ub, hw>>

\* user code calls set on an Atom
GSetAct ==
  /\ Building
  /\ \E a \in {m \in Built : gw.kind[m] = "atom"}, v \in Values :
       gw' = GAtomSet([gw EXCEPT !.tr = <<[t |-> "set", obj |-> a, l |-> NoListener,
                                            ev |-> <<gw.value[a]>>]>>], a, v)
  /\ UNCHANGED <<core, obs, ee, bt, dw, tw, sw, dt, ub, hw>>

GStepAct ==
  /\ ~Idle
  /\ gw' = GStep(gw)
  /\ UNCHANGED <<core, obs, ee, bt, dw, tw, sw, dt, ub, hw>>

\* Collections and derived Atoms over one Atom; user listeners only record
NextGraph == GDeriveAct \/ GCollectionAct \/ GSubscribeAct \/ GSetAct \/ GStepAct
SpecGraph == InitEmitter /\ [][NextGraph]_vars
\* a call that has begun goes on: the host runs the next listener
SpecGraphLive == SpecGraph /\ WF_vars(GStepAct)

\* one Atom whose listeners record or set it
NextReenter == GSubscribeAct \/ GSubscribeSetterAct \/ GSetAct \/ GStepAct
SpecReenter == InitEmitter /\ [][NextReenter]_vars

\* ======================================================== snapshot objects
\* The Collection's operations as far as they create, modify and hand out
\* snapshot objects.

\* this.emit('update', this.#value), and get(): the object #value refers to
\* is handed out
HandOut(h) == [h EXCEPT !.seen = Append(@, [ref |-> h.cur, was |-> h.heap[h.cur]])]

\* this.#value = <a new object with the content m>
Install(h, m) == [h EXCEPT !.heap = Append(@, m), !.cur = Len(h.heap) + 1]

\* add, one key, had it installed a copy as the child listener does
HAddKeyCopies(h, key, v) ==
  HandOut([Install(h, Put(h.heap[h.cur], key, v)) EXCEPT !.kid = Put(@, key, v)])

\* add, one key: this.#value[key] = atom.value on the object itself, emit
HAddKey(h, key, v) ==
  HandOut([h EXCEPT !.heap[h.cur] = Put(@, key, v), !.kid = Put(@, key, v)])

RECURSIVE HAdd(_, _)
HAdd(h, valuesByKey) ==
  IF valuesByKey = <<>> THEN h
  ELSE HAdd(HAddKey(h, valuesByKey[1][1], valuesByKey[1][2]), Tail(valuesByKey))

\* remove, one key: a copy without the key, emit
HRemoveKey(h, key) ==
  IF ~HasKey(h.kid, key) THEN h
  ELSE HandOut([Install(h, Del(h.heap[h.cur], key)) EXCEPT !.kid = Del(@, key)])

RECURSIVE HRemove(_, _)
HRemove(h, keys) ==
  IF keys = <<>> THEN h ELSE HRemove(HRemoveKey(h, keys[1]), Tail(keys))

\* set on the child under key: the listener add subscribed installs a copy
\* with the entry replaced and emits it
HChildSet(h, key, v) ==
  IF strictEqual(Lookup(h.kid, key), v) THEN h
  ELSE HandOut([Install(h, Put(h.heap[h.cur], key, v)) EXCEPT !.kid = Put(@, key, v)])

\* reset: this.#value = {}
HReset(h) == [Install(h, <<>>) EXCEPT !.kid = <<>>]

\* the calls go on while the bounds on objects and hand-outs leave room
HRoom(n) == Len(hw.heap) + n <= MaxObjs /\ Len(hw.seen) + n <= MaxSeen

HGetAct ==
  /\ HRoom(1)
  /\ hw' = HandOut(hw)
  /\ UNCHANGED <<core, obs, ee, bt, dw, tw, sw, dt, ub, gw>>

HAddAct ==
  /\ \E valuesByKey \in ValuesByKey :
       /\ valuesByKey # <<>> /\ HRoom(Len(valuesByKey))
       /\ hw' = HAdd(hw, valuesByKey)
  /\ UNCHANGED <<core, obs, ee, bt, dw, tw, sw, dt, ub, gw>>

HRemoveAct ==
  /\ \E key \in RemoveArgs :
       /\ HRoom(Len(key.keys))
       /\ hw' = HRemove(hw, key.keys)
       /\ hw' # hw
  /\ UNCHANGED <<core, obs, ee, bt, dw, tw, sw, dt, ub, gw>>

HChildSetAct ==
  /\ HRoom(1)
  /\ \E key \in KeySet(hw.kid), v \in Values :
       /\ hw' = HChildSet(hw, key, v)
       /\ hw' # hw
  /\ UNCHANGED <<core, obs, ee, bt, dw, tw, sw, dt, ub, gw>>

HResetAct ==
  /\ HRoom(1)
  /\ hw' = HReset(hw)
  /\ UNCHANGED <<core, obs, ee, bt, dw, tw, sw, dt, ub, gw>>

NextObjects == HGetAct \/ HAddAct \/ HRemoveAct \/ HChildSetAct \/ HResetAct
SpecObjects == InitEmitter /\ [][NextObjects]_vars

\* ------------------------------------------------- reading the observed call
Pre == obs.pre
Emits(o) == SelectSeq(obs.tr, LAMBDA e : e.t = "emit" /\ e.obj = o)
Calls(o) == SelectSeq(obs.tr, LAMBDA e : e.t = "call" /\ e.obj = o)
Now == [value |-> value, lst |-> lst, cval |-> cval, catoms |-> catoms, cmeta |-> cmeta]
\* user code called add or remove on the Collection from inside a listener
Reentered ==
  \E i \in 1..Len(obs.tr) : obs.tr[i].t = "call" /\ obs.tr[i].l.kind \in {"add", "remove"}

\* ---------------------------------------------------------------------- C1
\* C1: Atom.set(b) on an Atom holding a with the configured isEqual(a, b) true
\* emits no update, invokes no listener and leaves get() returning a.
C1_EqualSetIsNoOp ==
  obs.op = "atom.set" =>
    LET a == obs.a
        b == Resolve(obs.arg, Pre.value[a])
    IN IsEqual(a, Pre.value[a], b) =>
         obs.tr = <<>> /\ value[a] = Pre.value[a] /\ Now = Pre

\* an Atom with a subscriber and a custom isEqual was set to a value that
\* differs from the stored one but is equal to it under isEqual
C1_Witness ==
  /\ obs.op = "atom.set" /\ ~obs.arg.fn
  /\ obs.arg.v # Pre.value[obs.a]
  /\ IsEqual(obs.a, Pre.value[obs.a], obs.arg.v)
  /\ Pre.lst[obs.a] # <<>>
  /\ obs.tr = <<>> /\ value[obs.a] = Pre.value[obs.a]

\* ---------------------------------------------------------------------- C2
\* C2: Atom.set(b) on an Atom holding a with isEqual(a, b) false emits one
\* update, invokes every subscribed listener exactly once, in registration
\* order, with b, and afterwards get() returns b.
C2_ChangedSetNotifiesAll ==
  obs.op = "atom.set" =>
    LET a == obs.a
        b == Resolve(obs.arg, Pre.value[a])
    IN ~IsEqual(a, Pre.value[a], b) =>
         /\ Len(Emits(a)) = 1 /\ Emits(a)[1].ev = b
         /\ Len(Calls(a)) = Len(Pre.lst[a])
         /\ \A i \in 1..Len(Pre.lst[a]) :
              Calls(a)[i].l = Pre.lst[a][i] /\ Calls(a)[i].ev = b
         /\ value[a] = b

\* an Atom with at least two subscribers was set to an unequal value
C2_Witness ==
  /\ obs.op = "atom.set"
  /\ ~IsEqual(obs.a, Pre.value[obs.a], Resolve(obs.arg, Pre.value[obs.a]))
  /\ Len(Pre.lst[obs.a]) >= 2
  /\ Len(Calls(obs.a)) = Len(Pre.lst[obs.a])
  /\ value[obs.a] = Resolve(obs.arg, Pre.value[obs.a])

\* ---------------------------------------------------------------------- C3
\* C3: in every reachable state the key sets of the snapshot, of the child
\* map and of the teardown records of the Collection are the same, also when
\* a listener removes or adds a key while a child's update is being emitted.
C3_KeySetsAgree ==
  KeySet(cval) = KeySet(catoms) /\ KeySet(catoms) = KeySet(cmeta)

\* ---------------------------------------------------------------------- C4
\* C4: in every reachable state collection.keys is the set of keys k with
\* one(k) non-null, and get() has exactly those keys, each mapped to the
\* current value of the child stored at that key.
C4_SnapshotMatchesChildren ==
  /\ {KeysOf(catoms)[i] : i \in 1..Len(catoms)} = {k \in Keys : One(Now, k) # Null}
  /\ KeySet(cval) = {k \in Keys : One(Now, k) # Null}
  /\ \A k \in KeySet(cval) \cap KeySet(catoms) : Lookup(cval, k) = value[One(Now, k)]

\* ---------------------------------------------------------------------- C5
\* the keys of a child map that hold the container a
ChildKeys(m, a) == {k \in KeySet(m) : Lookup(m, k) = a}
\* the observed call is an Atom.set that changed the value
Changed ==
  obs.op = "atom.set" /\
  ~IsEqual(obs.a, Pre.value[obs.a], Resolve(obs.arg, Pre.value[obs.a]))

\* C5: a value change of a container that the Collection does not hold (one
\* that was replaced at its key by add included) emits no update on the
\* Collection and leaves get() as it was; a value change of the container
\* held at key x emits exactly one update per key holding it, and with one
\* key x the update's snapshot is the old one with x at the new value.
C5_ReplacedChildIsSilent ==
  (Changed /\ ~Reentered) =>
    LET a == obs.a
        b == Resolve(obs.arg, Pre.value[a])
        ks == ChildKeys(Pre.catoms, a)
    IN /\ ks = {} => Emits(COLL) = <<>> /\ cval = Pre.cval
       /\ Len(Emits(COLL)) = Cardinality(ks)
       /\ \A k \in ks : Lookup(cval, k) = b
       /\ \A k \in ks : ks = {k} =>
            Emits(COLL)[1].ev = Put(Pre.cval, k, b) /\ cval = Put(Pre.cval, k, b)

\* a container that add replaced at its key changed its value while the
\* Collection, which has a listener, holds another container
C5_Witness ==
  /\ Changed /\ ~Reentered
  /\ gone.of[obs.a] = "replaced"
  /\ ChildKeys(Pre.catoms, obs.a) = {}
  /\ \E k \in KeySet(catoms) : Lookup(catoms, k) # obs.a
  /\ Pre.lst[COLL] # <<>>
  /\ Emits(COLL) = <<>> /\ cval = Pre.cval

\* ---------------------------------------------------------------------- C6
\* C6: Collection.set never changes the key set; with no argument key that
\* has a child nothing happens at all (no child, no event, same snapshot);
\* a key with a child forwards its value to that child's set, and containers
\* that no argument key names keep their value.
C6_SetKeepsKeys ==
  (obs.op = "set" /\ ~Reentered) =>
    LET hit == {k \in KeySet(obs.arg) : HasKey(Pre.catoms, k)}
    IN /\ catoms = Pre.catoms /\ cmeta = Pre.cmeta /\ lst = Pre.lst
       /\ KeysOf(cval) = KeysOf(Pre.cval)
       /\ hit = {} => obs.tr = <<>> /\ Now = Pre
       /\ \A a \in Atoms :
            (\A k \in hit : Lookup(Pre.catoms, k) # a) =>
               value[a] = Pre.value[a] /\ Emits(a) = <<>>
       /\ \A k \in hit :
            (\A j \in hit : j # k => Lookup(Pre.catoms, j) # Lookup(Pre.catoms, k)) =>
               LET a == Lookup(Pre.catoms, k)
                   v == Lookup(obs.arg, k)
               IN IF IsEqual(a, Pre.value[a], v)
                  THEN value[a] = Pre.value[a] /\ Emits(a) = <<>>
                  ELSE value[a] = v /\ Len(Emits(a)) = 1 /\ Emits(a)[1].ev = v

\* set was called with a key that has no child and a key whose child changed
C6_Witness ==
  /\ obs.op = "set" /\ ~Reentered
  /\ \E k \in KeySet(obs.arg) : ~HasKey(Pre.catoms, k) /\ ~HasKey(catoms, k)
  /\ \E k \in KeySet(obs.arg) :
       /\ HasKey(Pre.catoms, k)
       /\ value[Lookup(Pre.catoms, k)] # Pre.value[Lookup(Pre.catoms, k)]
       /\ value[Lookup(Pre.catoms, k)] = Lookup(obs.arg, k)
  /\ catoms = Pre.catoms

\* ---------------------------------------------------------------------- C7
\* C7: after sync(arg) the key set of the Collection (child map and
\* snapshot) is exactly the key set of arg, whatever the Collection held
\* before, and each key's snapshot value equals (by content) the value of
\* arg's container at that key.
C7_SyncMakesKeysOfArg ==
  (obs.op = "sync" /\ ~Reentered) =>
    /\ KeySet(catoms) = KeySet(obs.arg)
    /\ KeySet(cval) = KeySet(obs.arg)
    /\ \A k \in KeySet(obs.arg) \cap KeySet(cval) :
         deepEqual(Lookup(cval, k), value[Lookup(obs.arg, k)])

\* ---------------------------------------------------------------------- C8
\* the Collection's subscriptions for key k: container and listener
CollSubs(ls, k) ==
  UNION {{<<o, ls[o][i]>> :
            i \in {j \in 1..Len(ls[o]) : ls[o][j].kind = "coll" /\ ls[o][j].key = k}} :
         o \in Atoms}

\* C8: for every key that the Collection and the argument of sync share,
\* whatever value the existing child holds, sync keeps that child container
\* and its subscription, and neither installs nor subscribes to the
\* argument's container.
C8_SyncKeepsContainers ==
  (obs.op = "sync" /\ ~Reentered) =>
    \A k \in KeySet(Pre.catoms) \cap KeySet(obs.arg) :
      /\ HasKey(catoms, k) /\ HasKey(cmeta, k)
      /\ Lookup(catoms, k) = Lookup(Pre.catoms, k)
      /\ Lookup(cmeta, k) = Lookup(Pre.cmeta, k)
      /\ CollSubs(lst, k) = CollSubs(Pre.lst, k)

\* ---------------------------------------------------------------------- C9
\* the state a call starts from, rebuilt from what the observed call kept
StOf(p) == p @@ [gone |-> gone, used |-> ClosureIds(p.lst, p.cmeta), tr |-> <<>>]
UserSubs(ls) == SelectSeq(ls, LAMBDA l : l.kind # "coll")

\* C9: upsert keeps, for a key that has a child, the child container, the
\* Collection's subscription on it and the child's own subscribers, and
\* subscribes to nothing for that key; called with one such key it sets the
\* child's value to the passed container's value and changes no container,
\* subscription or listener; called with one key that has no child it does
\* what add does with the same argument.
C9_UpsertKeepsChild ==
  (obs.op = "upsert" /\ ~Reentered) =>
    /\ \A k \in KeySet(obs.arg) \cap KeySet(Pre.catoms) :
         /\ HasKey(catoms, k) /\ HasKey(cmeta, k)
         /\ Lookup(catoms, k) = Lookup(Pre.catoms, k)
         /\ Lookup(cmeta, k) = Lookup(Pre.cmeta, k)
         /\ CollSubs(lst, k) = CollSubs(Pre.lst, k)
         /\ UserSubs(lst[Lookup(Pre.catoms, k)]) = UserSubs(Pre.lst[Lookup(Pre.catoms, k)])
    /\ Len(obs.arg) = 1 =>
         LET k == obs.arg[1][1]
             p == obs.arg[1][2]
         IN IF HasKey(Pre.catoms, k)
            THEN LET c == Lookup(Pre.catoms, k)
                     v == Pre.value[p]
                 IN /\ value[c] = IF IsEqual(c, Pre.value[c], v) THEN Pre.value[c] ELSE v
                    /\ lst = Pre.lst /\ catoms = Pre.catoms /\ cmeta = Pre.cmeta
            ELSE /\ Now = Prog(Add(StOf(Pre), obs.arg))
                 /\ obs.tr = Add(StOf(Pre), obs.arg).tr

\* upsert was called for the key of a child that has a subscriber of its own,
\* with another container holding another value: the child took the value
C9_Witness ==
  /\ obs.op = "upsert" /\ ~Reentered /\ Len(obs.arg) = 1
  /\ HasKey(Pre.catoms, obs.arg[1][1])
  /\ Lookup(Pre.catoms, obs.arg[1][1]) # obs.arg[1][2]
  /\ UserSubs(Pre.lst[Lookup(Pre.catoms, obs.arg[1][1])]) # <<>>
  /\ value[Lookup(Pre.catoms, obs.arg[1][1])] # Pre.value[Lookup(Pre.catoms, obs.arg[1][1])]
  /\ value[Lookup(Pre.catoms, obs.arg[1][1])] = Pre.value[obs.arg[1][2]]
  /\ Lookup(catoms, obs.arg[1][1]) = Lookup(Pre.catoms, obs.arg[1][1])
  /\ lst = Pre.lst

\* --------------------------------------------------------------------- C10
\* the keys a remove call deletes, in order: those with a child, each once
RECURSIVE Removed(_, _)
Removed(m, keys) ==
  IF keys = <<>> THEN <<>>
  ELSE IF HasKey(m, keys[1])
       THEN <<keys[1]>> \o Removed(Del(m, keys[1]), Tail(keys))
       ELSE Removed(m, Tail(keys))
RECURSIVE DelAll(_, _)
DelAll(m, keys) == IF keys = <<>> THEN m ELSE DelAll(Del(m, keys[1]), Tail(keys))

\* C10: remove deletes each given key that has a child from snapshot, child
\* map and teardown records, takes the Collection's listener off that child,
\* and emits one update per such key carrying the snapshot without the keys
\* removed so far; given keys without a child change nothing and emit
\* nothing; and a value change of a container the Collection does not hold
\* (a removed one included) emits no update on the Collection.
C10_RemoveDeletesAndUnsubscribes ==
  /\ (obs.op = "remove" /\ ~Reentered) =>
       LET del == Removed(Pre.catoms, obs.arg.keys)
       IN /\ catoms = DelAll(Pre.catoms, del)
          /\ cmeta = DelAll(Pre.cmeta, del)
          /\ cval = DelAll(Pre.cval, del)
          /\ Len(Emits(COLL)) = Len(del)
          /\ \A i \in 1..Len(del) :
               Emits(COLL)[i].ev = DelAll(Pre.cval, SubSeq(del, 1, i))
          /\ \A i \in 1..Len(del) :
               LET h == Lookup(Pre.cmeta, del[i])
               IN \A j \in 1..Len(lst[h.obj]) : lst[h.obj][j] # h.l
          /\ value = Pre.value
          /\ del = <<>> => obs.tr = <<>> /\ Now = Pre
  /\ (Changed /\ ~Reentered /\ ChildKeys(Pre.catoms, obs.a) = {}) =>
       Emits(COLL) = <<>> /\ cval = Pre.cval

\* remove was called with a key that has a child and a key that has none,
\* on a Collection that has a listener: one update, without the key
C10_Witness ==
  /\ obs.op = "remove" /\ ~Reentered /\ obs.arg.arr
  /\ Len(obs.arg.keys) = 2
  /\ \E i \in 1..2 : ~HasKey(Pre.catoms, obs.arg.keys[i])
  /\ \E i \in 1..2 :
       /\ HasKey(Pre.catoms, obs.arg.keys[i])
       /\ ~HasKey(catoms, obs.arg.keys[i]) /\ ~HasKey(cval, obs.arg.keys[i])
  /\ Pre.lst[COLL] # <<>>
  /\ Len(Emits(COLL)) = 1

\* --------------------------------------------------------------------- C11
\* the snapshot after the containers of atomsByKey are installed over m
RECURSIVE Seeded(_, _, _)
Seeded(m, atomsByKey, val) ==
  IF atomsByKey = <<>> THEN m
  ELSE Seeded(Put(m, atomsByKey[1][1], val[atomsByKey[1][2]]), Tail(atomsByKey), val)

\* C11: add with n keys emits exactly n updates on the Collection, the k-th
\* carrying the snapshot in which the first k keys of the argument hold
\* their containers' values (and the later keys are as they were before),
\* and each update is delivered to every listener of the Collection.
C11_AddEmitsOncePerKey ==
  (obs.op = "add" /\ ~Reentered) =>
    /\ Len(Emits(COLL)) = Len(obs.arg)
    /\ \A k \in 1..Len(obs.arg) :
         Emits(COLL)[k].ev = Seeded(Pre.cval, SubSeq(obs.arg, 1, k), Pre.value)
    /\ cval = Seeded(Pre.cval, obs.arg, Pre.value)
    /\ Len(Calls(COLL)) = Len(obs.arg) * Len(Pre.lst[COLL])
    /\ \A k \in KeySet(obs.arg) : HasKey(catoms, k) /\ Lookup(catoms, k) = Lookup(obs.arg, k)

\* add was called with two keys on a Collection that has a listener: two
\* updates, the first without the second key
C11_Witness ==
  /\ obs.op = "add" /\ ~Reentered /\ Len(obs.arg) = 2
  /\ Pre.lst[COLL] # <<>>
  /\ Len(Emits(COLL)) = 2
  /\ ~HasKey(Emits(COLL)[1].ev, obs.arg[2][1])
  /\ HasKey(Emits(COLL)[2].ev, obs.arg[2][1])
  /\ Len(Calls(COLL)) = 2

\* --------------------------------------------------------------------- C12
\* the listeners that a Collection registered, among those of one emitter
CollListeners(ls) == SelectSeq(ls, LAMBDA l : l.kind = "coll")

\* C12: reset leaves keys and get() empty, takes the Collection's listener
\* off every container and keeps the Collection's own listeners as they
\* were; a value change of a container that carries no listener of the
\* Collection emits no update on it; and every listener the Collection has
\* receives each update of an add call.
C12_ResetClearsAndKeepsListeners ==
  /\ obs.op = "reset" =>
       /\ cval = <<>> /\ catoms = <<>> /\ cmeta = <<>>
       /\ lst[COLL] = Pre.lst[COLL]
       /\ \A a \in Atoms :
            CollListeners(lst[a]) = <<>> /\ UserSubs(lst[a]) = UserSubs(Pre.lst[a])
       /\ value = Pre.value
  /\ (Changed /\ ~Reentered /\ CollListeners(Pre.lst[obs.a]) = <<>>) =>
       Emits(COLL) = <<>> /\ cval = Pre.cval
  /\ (obs.op = "add" /\ ~Reentered) =>
       \A k \in 1..Len(Emits(COLL)) : \A i \in 1..Len(Pre.lst[COLL]) :
         LET c == Calls(COLL)[(k - 1) * Len(Pre.lst[COLL]) + i]
         IN c.l = Pre.lst[COLL][i] /\ c.ev = Emits(COLL)[k].ev

\* reset was called on a Collection that holds a child and has a listener
C12_Witness ==
  /\ obs.op = "reset"
  /\ Pre.catoms # <<>> /\ Pre.lst[COLL] # <<>>
  /\ \E a \in Atoms : CollListeners(Pre.lst[a]) # <<>> /\ CollListeners(lst[a]) = <<>>
  /\ cval = <<>> /\ catoms = <<>>
  /\ lst[COLL] = Pre.lst[COLL]

\* ------------------------------------------------ observed EventEmitter calls
Threw == Len(obs.tr) > 0 /\ obs.tr[Len(obs.tr)].t = "throw"
\* the listener invocations of the observed call, in order
Invoked == SelectSeq(obs.tr, LAMBDA x : x.t = "call")
\* no user function of the observed call changed the registry
Plain == \A i \in 1..Len(Invoked) : Invoked[i].l.kind = "rec"

\* --------------------------------------------------------------------- C18
\* C18: off(t, f) leaves f with no registration under t and keeps all other
\* listeners under t, and the listeners of every other type, as they were
\* and in their order; an emit(t, ...) invokes only listeners that are
\* registered under t when it is called, so f is not invoked by an emit
\* that follows the off.
C18_OffSilencesOnlyThatListener ==
  /\ (obs.op = "off" /\ ~Threw) =>
       /\ ~Registered(ee.reg, obs.a, obs.arg)
       /\ ListenersOf(ee.reg, obs.a) =
            SelectSeq(ListenersOf(obs.pre.reg, obs.a), LAMBDA fn : fn # obs.arg)
       /\ \A t \in Types \ {obs.a} :
            ListenersOf(ee.reg, t) = ListenersOf(obs.pre.reg, t)
       /\ Invoked = <<>>
  /\ (obs.op = "emit" /\ ~Threw) =>
       /\ \A i \in 1..Len(Invoked) : Registered(obs.pre.reg, obs.a, Invoked[i].l)
       /\ \A i \in 1..Len(ListenersOf(obs.pre.reg, obs.a)) :
            \E j \in 1..Len(Invoked) : Invoked[j].l = ListenersOf(obs.pre.reg, obs.a)[i]

\* an emit under the type from which a listener was removed by the last
\* off: another listener is invoked, the removed one is not
C18_Witness ==
  /\ obs.op = "emit" /\ ~Threw
  /\ obs.pre.was # <<>> /\ obs.pre.was[1] = obs.a
  /\ ~Registered(obs.pre.reg, obs.a, obs.pre.was[2])
  /\ Invoked # <<>>
  /\ \A i \in 1..Len(Invoked) : Invoked[i].l # obs.pre.was[2]

\* --------------------------------------------------------------------- C19
\* C19: emit(t, e) invokes exactly the listeners registered under t when it
\* is called, once per registration, in registration order, each with e and
\* under t; with no listener under t it invokes nothing and changes nothing.
C19_EmitInvokesRegisteredInOrder ==
  (obs.op = "emit" /\ ~Threw) =>
    LET ls == ListenersOf(obs.pre.reg, obs.a)
    IN /\ Len(Invoked) = Len(ls)
       /\ \A i \in 1..Len(ls) :
            Invoked[i].l = ls[i] /\ Invoked[i].ev = obs.arg /\ Invoked[i].obj = obs.a
       /\ ls = <<>> => obs.tr = <<>> /\ ee = obs.pre

\* an emit under a type that has a listener registered twice, while another
\* type has a listener that is registered only there
C19_Witness ==
  /\ obs.op = "emit" /\ ~Threw
  /\ \E i, j \in 1..Len(ListenersOf(obs.pre.reg, obs.a)) :
       i # j /\ ListenersOf(obs.pre.reg, obs.a)[i] = ListenersOf(obs.pre.reg, obs.a)[j]
  /\ \E t \in Types \ {obs.a} : \E i \in 1..Len(ListenersOf(obs.pre.reg, t)) :
       ~Registered(obs.pre.reg, obs.a, ListenersOf(obs.pre.reg, t)[i])
  /\ Len(Invoked) = Len(ListenersOf(obs.pre.reg, obs.a))

\* --------------------------------------------------------------------- C20
\* C20: on and off called with a missing type or a missing listener, and
\* emit called with a missing type, throw, invoke no listener and leave the
\* registry as it was.
C20_BadArgumentsThrow ==
  (\/ obs.op \in {"on", "off", "emit"} /\ Falsy(obs.a)
   \/ obs.op \in {"on", "off"} /\ obs.arg = NoListener) =>
    /\ Threw
    /\ Invoked = <<>>
    /\ ee.reg = obs.pre.reg

\* on was called without a type on an emitter that has listeners
C20_Witness ==
  /\ obs.op = "on" /\ Falsy(obs.a) /\ obs.arg # NoListener
  /\ obs.pre.reg # <<>>
  /\ Threw /\ ee.reg = obs.pre.reg

\* --------------------------------------------------------------------- C25
\* C25: during one emit(t, e), a listener that an earlier listener of the
\* same emit removed from t (by off, as its unsubscribe handle does) is not
\* invoked afterwards by that emit.
C25_RemovedListenerNotInvoked ==
  (obs.op = "emit" /\ ~Threw) =>
    \A i \in 1..Len(Invoked) :
      (Invoked[i].l.kind = "off" /\ Invoked[i].l.key = obs.a) =>
        \A j \in (i + 1)..Len(Invoked) : Invoked[j].l # Fn(Invoked[i].l.arg)

\* --------------------------------------------------------------------- C26
\* number of registrations of listener f under type t
Count(reg, t, f) ==
  Cardinality({i \in 1..Len(ListenersOf(reg, t)) : ListenersOf(reg, t)[i] = f})

\* C26: one off(t, f), called directly or as the unsubscribe handle of an
\* on(t, f) from inside a listener, removes all registrations of f under t
\* and no other registration; an emit invokes f as many times as f is
\* registered, so zero times after the off.
C26_OffRemovesEveryRegistration ==
  /\ (obs.op = "off" /\ ~Threw) =>
       /\ Count(ee.reg, obs.a, obs.arg) = 0
       /\ TotalRegs(ee.reg) = TotalRegs(obs.pre.reg) - Count(obs.pre.reg, obs.a, obs.arg)
  /\ (obs.op = "emit" /\ ~Threw) =>
       /\ \A i \in 1..Len(Invoked) :
            (Invoked[i].l.kind = "off"
               /\ \A j \in (i + 1)..Len(Invoked) : Invoked[j].l.kind # "on") =>
              Count(ee.reg, Invoked[i].l.key, Fn(Invoked[i].l.arg)) = 0
       /\ \A f \in EListeners :
            Cardinality({i \in 1..Len(Invoked) : Invoked[i].l = f})
              = Count(obs.pre.reg, obs.a, f)

\* off was called for a listener registered twice under the type, next to
\* another listener, which stays
C26_Witness ==
  /\ obs.op = "off" /\ ~Threw
  /\ Count(obs.pre.reg, obs.a, obs.arg) = 2
  /\ Len(ListenersOf(obs.pre.reg, obs.a)) = 3
  /\ Len(ListenersOf(ee.reg, obs.a)) = 1

\* --------------------------------------------------------------------- C27
\* C27: no event type maps to an empty listener list, and an off for a
\* listener that is not registered under the type leaves the registry as it
\* was.
C27_NoEmptyListenerLists ==
  /\ \A i \in 1..Len(ee.reg) : Len(ee.reg[i][2]) > 0
  /\ (obs.op = "off" /\ Count(obs.pre.reg, obs.a, obs.arg) = 0) =>
       ee.reg = obs.pre.reg

\* off removed the only listener of a type and the type's entry with it,
\* while another type keeps its listeners
C27_Witness ==
  /\ obs.op = "off" /\ ~Threw
  /\ Len(ListenersOf(obs.pre.reg, obs.a)) = 1
  /\ Count(obs.pre.reg, obs.a, obs.arg) = 1
  /\ ~HasKey(ee.reg, obs.a)
  /\ ee.reg # <<>>

\* --------------------------------------------------------------------- C28
\* the keys the observed sync handled, in order
Visits == SelectSeq(obs.tr, LAMBDA e : e.t = "visit")

\* C28: sync handles every key of the union of the Collection's keys and
\* the argument's keys exactly once, and the Collection emits at most one
\* update per key of that union.
C28_SyncHandlesKeysOnce ==
  (obs.op = "sync" /\ ~Reentered) =>
    LET union == KeySet(Pre.catoms) \cup KeySet(obs.arg)
    IN /\ \A k \in union :
            Cardinality({i \in 1..Len(Visits) : Visits[i].ev = k}) = 1
       /\ Len(Emits(COLL)) <= Cardinality(union)

\* ------------------------------------------- the observed calls on derive
\* position in the trace where the k-th observed set call begins
Marks == {i \in 1..Len(obs.tr) : obs.tr[i].t = "set"}
MarkIdx(k) == CHOOSE i \in Marks : Cardinality({j \in Marks : j <= i}) = k
SegEnd(k) == IF k < Len(obs.arg) THEN MarkIdx(k + 1) - 1 ELSE Len(obs.tr)
\* the values of all Atoms when the k-th call began and when it returned
ValuesBefore(k) == obs.tr[MarkIdx(k)].ev
ValuesAfter(k) == IF k < Len(obs.arg) THEN obs.tr[MarkIdx(k + 1)].ev ELSE dw.value
\* the updates Atom o emitted during the k-th call, and the invocations of
\* the recorders subscribed to it
EmitsIn(k, o) ==
  SelectSeq(SubSeq(obs.tr, MarkIdx(k), SegEnd(k)),
            LAMBDA e : e.t = "emit" /\ e.obj = o)
RecCallsIn(k, o) ==
  SelectSeq(SubSeq(obs.tr, MarkIdx(k), SegEnd(k)),
            LAMBDA e : e.t = "call" /\ e.obj = o /\ e.l.kind = "rec")
\* select applied to the sources' values in vals
ProjectionOf(vals, d) == Project([value |-> vals, ders |-> dw.ders], d)
Recorders(d) == SelectSeq(dw.lst[d], LAMBDA l : l.kind = "rec")
\* the sources of d, as a sequence of Atoms
SourcesOf(d) ==
  IF dw.ders[d].how = "list" THEN dw.ders[d].src
  ELSE [i \in 1..Len(dw.ders[d].src) |-> dw.ders[d].src[i][2]]

\* the values of all Atoms when trace entry i was made: a value is the one
\* of the Atom's last update before, or the one it had before the calls
ValuesAt(i) ==
  [o \in DObjs |->
     LET E == {j \in 1..i : obs.tr[j].t = "emit" /\ obs.tr[j].obj = o}
     IN IF E = {} THEN obs.pre.value[o]
        ELSE obs.tr[CHOOSE j \in E : \A h \in E : h <= j].ev]
\* the trace entries at which the closure of derived Atom d was invoked
Recomputes(d) ==
  {i \in 1..Len(obs.tr) :
     obs.tr[i].t = "call" /\ obs.tr[i].l.kind = "derive" /\ obs.tr[i].l.key = d}
\* those at which the projection was not equal to the value d held
ChangedAt(d) ==
  {i \in Recomputes(d) : ~IsEqual(d, ValuesAt(i)[d], ProjectionOf(ValuesAt(i), d))}
EmitsNext(i, d) ==
  i < Len(obs.tr) /\ obs.tr[i + 1].t = "emit" /\ obs.tr[i + 1].obj = d

C14_EqualProjectionIsSilent ==
  obs.op = "sets" =>
    \A d \in Made :
      /\ \A i \in Recomputes(d) \ ChangedAt(d) :
           /\ ~EmitsNext(i, d)
           /\ i = Len(obs.tr) => dw.value[d] = ValuesAt(i)[d]
      /\ Len(Emits(d)) <= Cardinality(ChangedAt(d))
      /\ Emits(d) = <<>> => dw.value[d] = obs.pre.value[d]

\* a source of a derived Atom emitted an update, the derived Atom's closure
\* ran, the projection is another value that is equal under the derived
\* Atom's isEqual, and the derived Atom emitted nothing
C14_Witness ==
  /\ obs.op = "sets"
  /\ \E d \in Made : \E i \in 1..Len(SourcesOf(d)) :
       /\ EmitsIn(1, SourcesOf(d)[i]) # <<>>
       /\ EmitsIn(1, d) = <<>>
       /\ Recorders(d) # <<>>
       /\ ProjectionOf(ValuesAfter(1), d) # ValuesBefore(1)[d]
       /\ ValuesAfter(1)[d] = ValuesBefore(1)[d]


\* ------------------------------------------------------ the Batcher's history
FlushIdx == {i \in 1..Len(bt.log) : bt.log[i].t = "flush"}
\* the position of the last flush before position p, 0 if there is none
PrevFlush(p) ==
  IF \E i \in FlushIdx : i < p
  THEN CHOOSE i \in FlushIdx : i < p /\ \A j \in FlushIdx : j < p => j <= i
  ELSE 0
\* the listener calls that user code made, outside the flush callback,
\* after position q and before position p
CallsBetween(q, p) ==
  SelectSeq(SubSeq(bt.log, q + 1, p - 1), LAMBDA x : x.t = "listener" /\ ~x.inside)
ArgsOf(entries) == [i \in 1..Len(entries) |-> entries[i].arg]
\* an abort that cancelled a pending timer, after position q
AbortedAfter(q) ==
  \E i \in (q + 1)..Len(bt.log) : bt.log[i].t = "abort" /\ bt.log[i].pending

\* --------------------------------------------------------------------- C15
\* C15: every firing of the timer makes exactly one flush call, and that
\* call receives the argument tuples of all listener calls made (by code
\* outside the flush callback) since the previous flush, in call order;
\* while such calls wait and no abort has cancelled their timer, exactly
\* one timer is armed.
C15_FlushReceivesAllCalls ==
  /\ \A p \in FlushIdx :
       /\ bt.log[p].arg = ArgsOf(CallsBetween(PrevFlush(p), p))
       /\ p > 1 /\ bt.log[p - 1].t = "fire"
  /\ \A i \in 1..Len(bt.log) :
       bt.log[i].t = "fire" => i < Len(bt.log) /\ bt.log[i + 1].t = "flush"
  /\ LET q == PrevFlush(Len(bt.log) + 1)
     IN (CallsBetween(q, Len(bt.log) + 1) # <<>> /\ ~AbortedAfter(q)) =>
          Cardinality(bt.timers) = 1

\* three listener calls were followed by one flush that received all three
C15_Witness ==
  /\ Len(bt.log) >= 5
  /\ \A i \in 1..3 : bt.log[i].t = "listener"
  /\ bt.log[4].t = "fire" /\ bt.log[5].t = "flush"
  /\ bt.log[5].arg = <<bt.log[1].arg, bt.log[2].arg, bt.log[3].arg>>
  /\ Cardinality(FlushIdx) = 1

\* --------------------------------------------------------------------- C16
\* C16: after an abort that found the timer pending there is no flush call
\* before the next listener call.
C16_AbortCancelsFlush ==
  \A i \in 1..Len(bt.log) :
    (bt.log[i].t = "abort" /\ bt.log[i].pending) =>
      \A j \in FlushIdx : j > i => \E k \in (i + 1)..(j - 1) : bt.log[k].t = "listener"

\* abort found the timer pending; no timer is armed and nothing was flushed
C16_Witness ==
  /\ Len(bt.log) >= 2
  /\ bt.log[Len(bt.log)].t = "abort" /\ bt.log[Len(bt.log)].pending
  /\ bt.log[1].t = "listener"
  /\ bt.timers = {} /\ FlushIdx = {}

\* --------------------------------------------------------------------- C17
\* C17: the Batcher is pending after every listener call, also after an
\* abort: when the last thing that happened is a listener call, a timer is
\* armed, so that a flush follows.
C17_ListenerArmsTimer ==
  (bt.log # <<>> /\ bt.log[Len(bt.log)].t = "listener") => bt.timers # {}

\* --------------------------------------------------------------------- C29
\* the listener calls made so far that found no timer pending
CallsWhileIdle ==
  {i \in 1..Len(bt.log) : bt.log[i].t = "listener" /\ ~bt.log[i].pending}

\* C29: a Batcher has at most one armed timer; timers are armed only by
\* listener calls that found no timer pending, and every listener call
\* since the last timer callback is in the accumulator.
C29_AtMostOneTimer ==
  /\ Cardinality(bt.timers) <= 1
  /\ bt.nextId - 1 <= Cardinality(CallsWhileIdle)
  /\ LET q == PrevFlush(Len(bt.log) + 1)
     IN ArgsOf(CallsBetween(q, Len(bt.log) + 1)) = bt.calls

\* two listener calls, the second made while the timer of the first was
\* pending: one timer is armed and both calls are in the accumulator
C29_Witness ==
  /\ Len(bt.log) = 2
  /\ bt.log[1].t = "listener" /\ ~bt.log[1].pending
  /\ bt.log[2].t = "listener" /\ bt.log[2].pending
  /\ Cardinality(bt.timers) = 1 /\ Len(bt.calls) = 2

\* --------------------------------------------------------------------- C30
\* all listener calls after position q and before position p, those made
\* from inside the flush callback included
AllCallsBetween(q, p) ==
  SelectSeq(SubSeq(bt.log, q + 1, p - 1), LAMBDA x : x.t = "listener")

\* C30: every flush receives the argument tuples of all listener calls made
\* since the previous flush, those made from inside the flush callback
\* included, and no flush is invoked with an empty list.
C30_FlushDeliversEveryCall ==
  \A p \in FlushIdx :
    /\ bt.log[p].arg # <<>>
    /\ bt.log[p].arg = ArgsOf(AllCallsBetween(PrevFlush(p), p))

\* --------------------------------------------------------------------- C22
\* the segments the caller meant: the array given, or the parts of the
\* dotted string between its dots
Dots(str) == {i \in 1..Len(str) : str[i] = Dot}
SegmentsOf(key) ==
  IF key.arr THEN key.v
  ELSE LET cuts == Dots(key.v[1]) \cup {0, Len(key.v[1]) + 1}
           Nth(n) == CHOOSE c \in cuts : Cardinality({d \in cuts : d < c}) = n
       IN [n \in 1..(Cardinality(cuts) - 1) |->
             SubSeq(key.v[1], Nth(n - 1) + 1, Nth(n) - 1)]
\* the child of a Collection under a key, null for no Collection or no key
ChildAt(node, seg) ==
  IF node.coll /\ \E k \in KeySet(node.atoms) : seg = <<k>>
  THEN Lookup(node.atoms, CHOOSE k \in KeySet(node.atoms) : seg = <<k>>)
  ELSE NoNode
\* the child reached from the root by descending along the segments
Descend(segs) ==
  LET at[i \in 0..Len(segs)] ==
        IF i = 0 THEN CollNode(tw.root) ELSE ChildAt(at[i - 1], segs[i])
  IN IF segs = <<>> THEN NoNode ELSE at[Len(segs)]

\* C22: one(path), for a key array and for a dotted string, returns the
\* child reached by descending through nested Collections along the path's
\* segments, and null when a segment is missing or a non-terminal segment
\* is no Collection; has(path) is true exactly when that child exists.
C22_OneDescendsPath ==
  /\ tw.op = "one" => tw.res = Descend(SegmentsOf(tw.key))
  /\ tw.op = "has" => tw.has = (Descend(SegmentsOf(tw.key)) # NoNode)

\* one was called with a dotted string of two keys and returned an Atom
\* that is a child of a nested Collection
C22_Witness ==
  /\ tw.op = "one" /\ ~tw.key.arr /\ Cardinality(Dots(tw.key.v[1])) = 1
  /\ tw.res # NoNode /\ ~tw.res.coll
  /\ Property(tw.root, <<tw.key.v[1][1]>>).coll

\* --------------------------------------------------------------------- C23
\* the calls of listeners made while the observed call ran
AllCalls == SelectSeq(obs.tr, LAMBDA e : e.t = "call")
\* the Atoms tied to a by Atom.from: its source and its copies
Relatives(a) ==
  {o \in sw.alive \ {a} : sw.orig[o] = a \/ sw.orig[a] = o}

\* C23: Atom.from(source) returns a new Atom whose value is the source's
\* current value and which has no subscription, and it leaves the source's
\* value and subscriptions alone; a later set on the source or on the copy
\* leaves the other one's value alone and calls no listener of the other one.
C23_AtomFromIsIndependentCopy ==
  /\ (obs.op = "Atom.from" /\ obs.arg.atom) =>
       LET a == obs.arg.v
           b == obs.a
       IN /\ b # a /\ b \notin obs.pre.alive /\ b \in sw.alive
          /\ sw.value[b] = obs.pre.value[a]
          /\ sw.lst[b] = <<>>
          /\ sw.value[a] = obs.pre.value[a]
          /\ sw.lst[a] = obs.pre.lst[a]
          /\ obs.tr = <<>>
  /\ obs.op = "Atom.set" =>
       /\ \A o \in Relatives(obs.a) :
            /\ sw.value[o] = obs.pre.value[o]
            /\ sw.lst[o] = obs.pre.lst[o]
            /\ Calls(o) = <<>>
       /\ Len(AllCalls) = IF sw.value[obs.a] = obs.pre.value[obs.a] THEN 0
                          ELSE Len(obs.pre.lst[obs.a])
       /\ \A i \in 1..Len(AllCalls) : AllCalls[i].obj = obs.a

\* a set that changes the value of a copy, the copy and its source both
\* having subscribers
C23_Witness ==
  /\ obs.op = "Atom.set"
  /\ sw.orig[obs.a] \in sw.alive
  /\ sw.value[obs.a] # obs.pre.value[obs.a]
  /\ sw.lst[obs.a] # <<>>
  /\ sw.lst[sw.orig[obs.a]] # <<>>
  /\ sw.value[sw.orig[obs.a]] # 0

\* --------------------------------------------------------------------- C21
\* the children that from made for an Atom given to it
CopiesIn(c, a) ==
  {k \in KeySet(sw.ca[c]) : sw.orig[Lookup(sw.ca[c], k)] = a}

\* C21: Collection.from(values) wraps a plain value in a fresh Atom and uses
\* an Atom as it is: the child under the key is that Atom itself, and a later
\* set on that Atom that changes its value changes the Collection's snapshot
\* under the key and makes the Collection emit update.
C21_FromUsesAtomsAsIs ==
  /\ obs.op = "Collection.from" =>
       \A i \in 1..Len(obs.arg) :
         LET k == obs.arg[i][1]
             x == obs.arg[i][2]
             child == Lookup(sw.ca[obs.a], k)
         IN /\ HasKey(sw.ca[obs.a], k)
            /\ x.atom => child = x.v
            /\ ~x.atom => child \notin obs.pre.alive /\ sw.value[child] = x.v
  /\ obs.op = "Atom.set" =>
       \A c \in sw.cons : \A k \in CopiesIn(c, obs.a) :
         sw.value[obs.a] # obs.pre.value[obs.a] =>
           /\ Lookup(sw.cv[c], k) = sw.value[obs.a]
           /\ Emits(c) # <<>>

\* --------------------------------------------------------------------- C24
\* the Atom that the observed set was made on, directly or through a holder
\* (0 when the holder has no child under the key)
SetTarget ==
  IF obs.op = "Atom.set" THEN obs.a
  ELSE IF HasKey(obs.pre.ca[obs.a], obs.arg[1][1])
       THEN Lookup(obs.pre.ca[obs.a], obs.arg[1][1]) ELSE 0
\* the observed call is a set that changed the value of its Atom
ChangingSet ==
  /\ obs.op \in {"Atom.set", "set"}
  /\ SetTarget # 0
  /\ sw.value[SetTarget] # obs.pre.value[SetTarget]
\* the keys under which Collection c holds the Atom a
HeldUnder(c, a) == {k \in KeySet(sw.ca[c]) : Lookup(sw.ca[c], k) = a}
Holders(a) == {c \in sw.cons : HeldUnder(c, a) # {}}
\* the derived Atoms that have the Atom a among their sources
DerivedOver(a) ==
  {d \in SDerived : sw.ders[d].on /\ \E i \in 1..Len(sw.ders[d].src) : sw.ders[d].src[i] = a}

Applied(f, old) == (old + f.v) % (MaxVal + 1)

\* C35: Atom.set(f) with a callable f takes f(stored value) as the candidate
\* value: when the candidate is equal to the stored value under isEqual
\* nothing is stored and nothing is emitted, otherwise the candidate is
\* stored and one update is emitted with it.
C35_UpdaterIsApplied ==
  (obs.op = "atom.set" /\ obs.arg.fn) =>
    LET a == obs.a
        old == Pre.value[a]
        candidate == Applied(obs.arg, old)
    IN IF IsEqual(a, old, candidate)
       THEN obs.tr = <<>> /\ value[a] = old
       ELSE /\ value[a] = candidate
            /\ Len(Emits(a)) = 1 /\ Emits(a)[1].ev = candidate
            /\ \A i \in 1..Len(Calls(a)) : Calls(a)[i].ev = candidate

\* an updater changed an Atom that has a subscriber and whose stored value
\* is not what the updater would be as a literal
C35_Witness ==
  /\ obs.op = "atom.set" /\ obs.arg.fn
  /\ Pre.value[obs.a] # 0
  /\ value[obs.a] # Pre.value[obs.a]
  /\ Calls(obs.a) # <<>>


\* --------------------------------------------------------------------- C31
\* C31: between calls (no set call is in progress in any state), the value
\* of every derived Atom is equal, under its isEqual, to its projection of
\* the values its sources hold, after any sequence of set calls on Atoms.
C31_DerivedEqualsProjection ==
  \A d \in Made : IsEqual(d, dw.value[d], Project(dw, d))

\* two sequential set calls changed both sources of a derived Atom made by
\* deriveStructured, and the derived Atom holds another value than before
C31_Witness ==
  /\ obs.op = "sets" /\ Len(obs.arg) = 2
  /\ \E d \in Made :
       /\ dw.ders[d].how = "struct"
       /\ {SourcesOf(d)[1], SourcesOf(d)[2]} = {obs.arg[1][1], obs.arg[2][1]}
       /\ \A i \in 1..2 : dw.value[SourcesOf(d)[i]] # obs.pre.value[SourcesOf(d)[i]]
       /\ dw.value[d] # obs.pre.value[d]
       /\ dw.value[d] = Project(dw, d)


\* --------------------------------------------------------------------- C32
\* the updates emitted during the last call on a build, in order
UpdatesOf(w) ==
  [i \in 1..Len(SelectSeq(w.tr, LAMBDA e : e.t = "emit")) |->
     [obj |-> SelectSeq(w.tr, LAMBDA e : e.t = "emit")[i].obj,
      ev |-> SelectSeq(w.tr, LAMBDA e : e.t = "emit")[i].ev]]
\* the values delivered to the recorders during the last call, in order
DeliveredIn(w) ==
  [i \in 1..Len(SelectSeq(w.tr, LAMBDA e : e.t = "call" /\ e.l.kind = "rec")) |->
     [obj |-> SelectSeq(w.tr, LAMBDA e : e.t = "call" /\ e.l.kind = "rec")[i].obj,
      ev |-> SelectSeq(w.tr, LAMBDA e : e.t = "call" /\ e.l.kind = "rec")[i].ev]]

\* C32: derived Atoms built by derive and by deriveStructured over the same
\* sources with selects that compute the same function hold equal values
\* after every call of the same sequence of calls, and during every call
\* they emit the same updates, and their subscribers receive the same
\* values, in the same order.
C32_DeriveAndStructuredAgree ==
  /\ dt.list.value = dt.struct.value
  /\ UpdatesOf(dt.list) = UpdatesOf(dt.struct)
  /\ DeliveredIn(dt.list) = DeliveredIn(dt.struct)

\* a set on a source made a derived Atom that has two sources, was built
\* with the keys inserted in reverse and has a subscriber emit an update
C32_Witness ==
  \E d \in TwinMade :
    /\ Len(dt.list.ders[d].src) = 2
    /\ dt.struct.ders[d].src[1][1] = 2
    /\ \E i \in 1..Len(UpdatesOf(dt.struct)) : UpdatesOf(dt.struct)[i].obj = d
    /\ \E i \in 1..Len(DeliveredIn(dt.struct)) : DeliveredIn(dt.struct)[i].obj = d


\* --------------------------------------------------------------------- C33
\* the listeners the Collection has registered on the Atom a
Registrations(a) == SelectSeq(lst[a], LAMBDA l : l.kind = "coll")

\* C33: in every reachable state the number of update listeners the
\* Collection has registered on a child equals the number of keys mapped to
\* that child, and each of these listeners is the one kept in the teardown
\* data of such a key; an Atom that is no child (never added, replaced,
\* removed or cleared by reset) carries no listener of the Collection.
C33_NoLeakedSubscriptions ==
  \A a \in Atoms :
    /\ Len(Registrations(a)) = Cardinality(ChildKeys(catoms, a))
    /\ \A i \in 1..Len(Registrations(a)) :
         \E k \in ChildKeys(catoms, a) :
           /\ HasKey(cmeta, k)
           /\ Lookup(cmeta, k).obj = a
           /\ Lookup(cmeta, k).l = Registrations(a)[i]


\* add replaced the child under a key: the old child is no child any more
\* and carries no listener of the Collection, the new one is held under two
\* keys and carries two
C33_Witness ==
  /\ obs.op = "add"
  /\ \E k \in KeySet(Pre.catoms) \cap KeySet(catoms) :
       LET old == Lookup(Pre.catoms, k)
           new == Lookup(catoms, k)
       IN /\ old # new
          /\ Len(SelectSeq(Pre.lst[old], LAMBDA l : l.kind = "coll")) = 1
          /\ ChildKeys(catoms, old) = {}
          /\ Registrations(old) = <<>>
          /\ Cardinality(ChildKeys(catoms, new)) = 2
          /\ Len(Registrations(new)) = 2


\* --------------------------------------------------------------------- C34
\* C34: after the cleanup of useAtom (unsubscribe the listener, then abort)
\* the flush callback is never invoked: no flush follows the abort in the
\* Batcher's history, whether or not a timer was pending and whatever set
\* calls are made on the Atom.
C34_NoFlushAfterTeardown ==
  \A i \in 1..Len(bt.log) : \A j \in 1..Len(bt.log) :
    (bt.log[i].t = "abort" /\ i < j) => bt.log[j].t # "flush"


\* ---------------------------------------------------------------------- C36
\* what the running or last set call delivered to the listener l of node n,
\* in the order of delivery
DeliveredTo(n, l) ==
  LET cs == SelectSeq(gw.tr, LAMBDA e : e.t = "call" /\ e.obj = n /\ e.l = l)
  IN [i \in 1..Len(cs) |-> cs[i].ev[1]]
\* the values the set call stored in node n, in the order they were stored
StoredIn(n) ==
  LET es == SelectSeq(gw.tr, LAMBDA e : e.t = "emit" /\ e.obj = n)
  IN [i \in 1..Len(es) |-> es[i].ev[1]]

\* C36: when the outermost set call on an Atom has returned, every subscriber
\* of the Atom has received the values in the order they were stored, and the
\* value it received last is the value get() returns; subscribers that call
\* set on the Atom from inside their callback are allowed.
C36_LastDeliveredIsCurrent ==
  Idle =>
    \A n \in Built : \A i \in 1..Len(gw.lst[n]) :
      LET got == DeliveredTo(n, gw.lst[n][i])
      IN (gw.kind[n] = "atom" /\ gw.lst[n][i] = Rec /\ got # <<>>) =>
           /\ got = StoredIn(n)
           /\ got[Len(got)] = gw.value[n]


\* ---------------------------------------------------------------------- C37
\* the observed call changed the snapshot of the Collection
SnapshotChanged == obs.op # "none" /\ Pre.cval # cval
\* the last update the Collection emitted in the observed call carried the
\* snapshot get() returns now
LastAnnounced ==
  /\ Emits(COLL) # <<>>
  /\ Emits(COLL)[Len(Emits(COLL))].ev = cval

\* C37: every change of the Collection's snapshot is announced: a call of
\* add, remove, upsert, sync, set, reset or a child's set that leaves the
\* snapshot different from what it was emits an update, and the last update
\* it emits carries the snapshot get() returns afterwards.
C37_EveryChangeIsAnnounced == SnapshotChanged => LastAnnounced

\* the same for every call but reset
C37_ChangeIsAnnouncedUnlessReset ==
  (SnapshotChanged /\ obs.op # "reset") => LastAnnounced


\* ---------------------------------------------------------------------- C38
\* C38: a snapshot object that get() returned or an update delivered is never
\* modified afterwards: it still has the content it had when it was handed
\* out, so no two updates carry one object with different contents.
C38_SnapshotsAreNeverModified ==
  \A i \in 1..Len(hw.seen) : hw.heap[hw.seen[i].ref] = hw.seen[i].was


\* ---------------------------------------------------------------------- C39
\* the derived Atoms among the sources of d that the set call changed
ChangedInputs(d) ==
  {gw.ders[d].src[i] : i \in 1..Len(gw.ders[d].src)} \cap
  {n \in GNodes : gw.kind[n] = "derived" /\ StoredIn(n) # <<>>}
\* the derived Atoms the change reached through two or more derived Atoms
Downstream ==
  {d \in GNodes : gw.kind[d] = "derived" /\ Cardinality(ChangedInputs(d)) >= 2}

\* C39: when one set call on a source Atom has reached a derived Atom
\* through two or more derived Atoms it depends on, the derived Atom has
\* emitted at most one update in that call, and every update it emitted
\* carries its projection of inputs that all reflect the change.
C39_DownstreamIsGlitchFree ==
  Idle =>
    \A d \in Downstream :
      /\ Len(StoredIn(d)) <= 1
      /\ \A i \in 1..Len(StoredIn(d)) : StoredIn(d)[i] = Project(gw, d)


\* ---------------------------------------------------------------------- C40
\* no emit of a node is running inside an emit of the same node
NoNestedEmitOfOneNode ==
  \A i, j \in 1..Len(gw.stack) : gw.stack[i].obj = gw.stack[j].obj => i = j

\* C40: when user listeners do not call set and no Collection or derived Atom
\* is built over itself, a set call on an Atom returns after finitely many
\* listener invocations (every call that has begun comes to an end), and no
\* handler of a Collection or of derive is triggered again from inside the
\* emit it caused.
C40_PropagationTerminates ==
  /\ []NoNestedEmitOfOneNode
  /\ (~Idle) ~> Idle

\* a set call has returned after it went through the handler of a Collection
\* and the closures of two derived Atoms
C40_Witness ==
  /\ Idle
  /\ \E i \in 1..Len(gw.tr) : gw.tr[i].t = "call" /\ gw.tr[i].l.kind = "child"
  /\ \E i, j \in 1..Len(gw.tr) :
       /\ gw.tr[i].t = "call" /\ gw.tr[i].l.kind = "derive"
       /\ gw.tr[j].t = "call" /\ gw.tr[j].l.kind = "derive"
       /\ gw.tr[i].l.key # gw.tr[j].l.key

====
